---- MODULE Spec2Model ----
(***************************************************************************)
(* Report-extraction-and-load pipelines of knowledge-tech-center.          *)
(*                                                                         *)
(* Four connectors share the pattern fetch -> transform -> ensure table -> *)
(* delete partition -> insert:                                             *)
(*   ga4_campaign  src/apis/ga4-campaign  (main.py, ga4_extractor.py,      *)
(*                 bigquery_client.py)                                     *)
(*   ga4_generic   src/apis/google-analytics-4 (ga4.py, bigquery.py)       *)
(*   ga4_manager   src/apis/google-analytics-4 (main.py,                   *)
(*                 src/report_manager.py)                                  *)
(*   twitter       src/apis/twitter (main.py, src/bigquery_writer.py)      *)
(*                                                                         *)
(* The warehouse (Sink) and the report API (Source) are the environment:   *)
(* every call to them is logged with its outcome, and a failing call is an *)
(* input chosen by the environment.                                        *)
(***************************************************************************)
EXTENDS Integers, Sequences, FiniteSets, TLC

\* ---------------------------------------------------------------- bounds
MaxRuns == 2        \* single-report requests handled in one behaviour

\* ------------------------------------------------------------ value sets
Connectors == {"ga4_campaign", "ga4_generic", "ga4_manager", "twitter"}

Dates == {"2024-01-15", "2024-01-16"}

\* What the Report Source may answer to one fetch: the date dimension of each
\* returned row, in the order returned (one day, two days, a repeated day).
Responses == {<<>>,
              <<"2024-01-15">>, <<"2024-01-16">>,
              <<"2024-01-15", "2024-01-15">>,
              <<"2024-01-15", "2024-01-16">>,
              <<"2024-01-16", "2024-01-15">>}

\* The report catalog: report key -> destination table.
Catalog == {"CAMPAIGN", "GEOGRAPHIC"}
UnknownKey == "NOPE"
TableOf(key) == IF key = "CAMPAIGN" THEN "GA4_DIM_CAMPAIGN" ELSE "GA4_DIM_GEOGRAPHIC"
ProfileTable == "TB_013_TWITTER_PERFIL"
PostsTable == "TB_014_TWITTER_POSTS"
MetricsTable == "TB_015_TWITTER_METRICAS_ADICIONAIS"
TwitterTables == <<ProfileTable, PostsTable, MetricsTable>>
\* table_prefix of a ga4_campaign request: absent, or the caller's text.
NoPrefix == "-"
Prefixes == {NoPrefix, "PREFIX"}
\* f"{table_prefix}_{schema.table_name}"
Prefixed(table_prefix, t) ==
    IF table_prefix = NoPrefix THEN t
    ELSE IF t = "GA4_DIM_CAMPAIGN" THEN "PREFIX_GA4_DIM_CAMPAIGN"
         ELSE "PREFIX_GA4_DIM_GEOGRAPHIC"
Tables == {Prefixed(p, TableOf(k)) : p \in Prefixes, k \in Catalog}
              \cup {ProfileTable, PostsTable, MetricsTable}

NoArg == "-"
NoTable == "-"

Range(s) == {s[i] : i \in 1..Len(s)}
LastOf(s) == s[Len(s)]

\* Text is a sequence of one-character strings, so that formatting and
\* parsing are computed character by character.
DigitChars == <<"0", "1", "2", "3", "4", "5", "6", "7", "8", "9">>

RECURSIVE Pow10(_)
Pow10(n) == IF n = 0 THEN 1 ELSE 10 * Pow10(n - 1)

\* "%0wd": the decimal digits of n, zero-padded to width w.
Pad(n, w) == [i \in 1..w |-> DigitChars[((n \div Pow10(w - i)) % 10) + 1]]

\* The calendar days the wall clock passes through.
Days == <<[y |-> 2024, m |-> 1, d |-> 14],
          [y |-> 2024, m |-> 1, d |-> 15],
          [y |-> 2024, m |-> 1, d |-> 16]>>

\* strftime("%Y-%m-%d")
strftime(day) == Pad(day.y, 4) \o <<"-">> \o Pad(day.m, 2) \o <<"-">> \o Pad(day.d, 2)

\* The Report Source's date dimension is the day written YYYYMMDD.
DateDimension(day) == Pad(day.y, 4) \o Pad(day.m, 2) \o Pad(day.d, 2)

\* The relative date the Report Source resolves by its own clock.
Yesterday == <<"y", "e", "s", "t", "e", "r", "d", "a", "y">>

NoReq ==
    [route |-> "-", pc |-> "idle", code |-> 0, rejected |-> FALSE, io |-> <<>>,
     given |-> FALSE, start |-> <<>>, end |-> <<>>, i |-> 1, parts |-> <<>>]

NoUnit == [fn |-> "-", in |-> <<>>, out |-> <<>>, done |-> FALSE]

VARIABLES
    connector,   \* which of the repository's connectors this deployment runs
    sink,        \* warehouse: [dataset, exists, rows]
    hist,        \* single-report requests handled so far, oldest first
    batch,       \* the batch request in progress or finished
    clock,       \* the wall clock: index of the current day in Days
    req,         \* the HTTP request being admitted and dated
    unit,        \* one application of a transformation: [fn, in, out, done]
    gcp_connection,  \* the module-level GCPConnection of the ga4_campaign process
    threads,     \* the requests the server's threads are handling
    dag,         \* the task instances of one run of dag_ga4_daily_load
    pager        \* the locals of TwitterClient.get_all_user_tweets

vars == <<connector, sink, hist, batch, clock, req, unit, gcp_connection, threads, dag, pager>>

\* ------------------------------------------------------------- Sink, Source
\* A context threads the warehouse state and the log of calls one request makes.
Ctx(s) == [sink |-> s, calls |-> <<>>]

Call(op, t, arg, ok) == [op |-> op, table |-> t, arg |-> arg, ok |-> ok]

Log(c, call) == [c EXCEPT !.calls = Append(@, call)]

\* What the environment decides for the calls of one report key's pipeline.
\* ins = FALSE: insert_rows_json returns errors or raises.
\* get = FALSE: get_table raises although the table may exist.
Envs == [fetch : BOOLEAN, rows : Responses, dsCreate : BOOLEAN, get : BOOLEAN,
         tblCreate : BOOLEAN, del : BOOLEAN, ins : BOOLEAN]

\* client.get_table(table_ref): raises when the table is absent, and may raise
\* for another reason ("unavailable") when it is there.
ClientGetTable(c, t, env) ==
    LET ok == env.get /\ t \in c.sink.exists
        why == IF t \in c.sink.exists /\ ~env.get THEN "unavailable" ELSE NoArg
    IN  [c |-> Log(c, Call("get_table", t, why, ok)), ok |-> ok]

\* client.create_table(table): needs the dataset, raises Conflict for a table
\* that is already there; may fail for other reasons.
ClientCreateTable(c, t, env) ==
    LET conflict == t \in c.sink.exists
        ok == env.tblCreate /\ c.sink.dataset /\ ~conflict
        c1 == Log(c, Call("create_table", t,
                          IF conflict THEN "conflict" ELSE NoArg, ok))
    IN  [c |-> IF ok THEN [c1 EXCEPT !.sink.exists = @ \cup {t}] ELSE c1,
         ok |-> ok]

\* client.get_dataset(dataset_ref)
ClientGetDataset(c) ==
    [c |-> Log(c, Call("get_dataset", NoTable, NoArg, c.sink.dataset)),
     ok |-> c.sink.dataset]

\* client.create_dataset(dataset)
ClientCreateDataset(c, env) ==
    LET ok == env.dsCreate
        c1 == Log(c, Call("create_dataset", NoTable, NoArg, ok))
    IN  [c |-> IF ok THEN [c1 EXCEPT !.sink.dataset = TRUE] ELSE c1, ok |-> ok]

\* client.query("DELETE FROM t WHERE date = d"); job.result()
ClientQueryDelete(c, t, d, env) ==
    LET ok == env.del /\ t \in c.sink.exists
        c1 == Log(c, Call("delete", t, d, ok))
    IN  [c |-> IF ok THEN [c1 EXCEPT !.sink.rows[t] = {r \in @ : r.date # d}]
                     ELSE c1,
         ok |-> ok]

\* client.insert_rows_json(table_ref, rows): fails on an absent table.
ClientInsertRowsJson(c, t, rows, env) ==
    LET ok == env.ins /\ t \in c.sink.exists
        c1 == Log(c, Call("insert", t, NoArg, ok))
    IN  [c |-> IF ok THEN [c1 EXCEPT !.sink.rows[t] = @ \cup Range(rows)] ELSE c1,
         ok |-> ok]

\* ga4_client.run_report(request): the rows of the requested period, or an
\* exception.
ClientRunReport(c, key, env) ==
    [c |-> Log(c, Call("run_report", NoTable, key, env.fetch)),
     ok |-> env.fetch,
     rows |-> IF env.fetch THEN env.rows ELSE <<>>]

\* ------------------------------------------------------------ result shapes
LoadResult(status, n, t) == [status |-> status, rows_inserted |-> n, table |-> t]
NoLoad == LoadResult("none", 0, NoTable)

\* What a single-report request gives its caller: an HTTP response, or (for
\* library functions) a return value or an exception (raised = TRUE).
Resp(code, status, error, available, load, raised) ==
    [code |-> code, status |-> status, error |-> error,
     available |-> available, load |-> load, raised |-> raised]

\* Summary counters of a batch.
Counts(t, ok, ko) == [total |-> t, successful |-> ok, failed |-> ko]
NoCounts == Counts(0, 0, 0)

\* What a batch request gives its caller. step names the stage a fatal error
\* stopped the batch at; details are the per-key results included in the answer.
BatchResp(code, status, step, extraction, summary, details) ==
    [code |-> code, status |-> status, step |-> step,
     extraction |-> extraction, summary |-> summary, details |-> details]
NoResp == BatchResp(0, "none", "none", NoCounts, NoCounts, <<>>)

\* One key's extraction as kept in results["extractions"] / results["dimensions"].
Extraction(key, err, table_name, data, calls) ==
    [key |-> key, err |-> err, table_name |-> table_name, data |-> data,
     calls |-> calls]

\* One key's (or one account's) entry in the result set of a batch; calls are
\* the Source and Sink calls made for it, reports the statuses of an
\* account's reports.
Entry(key, status, error, n, calls, reports) ==
    [key |-> key, status |-> status, error |-> error, rows_inserted |-> n,
     calls |-> calls, reports |-> reports]

\* Transform: one enriched row per source row; (run, idx) stands for the fresh
\* uuid, date is the partition column.
Enrich(run, dates) ==
    [i \in 1..Len(dates) |-> [run |-> run, idx |-> i, date |-> dates[i]]]

\* --------------------------------------------- ga4_campaign: bigquery_client.py
BigQueryClient_table_exists(c, t, env) == ClientGetTable(c, t, env)

BigQueryClient_create_table(c, t, env) == ClientCreateTable(c, t, env)

BigQueryClient_ensure_table_exists(c, t, env) ==
    LET e == BigQueryClient_table_exists(c, t, env)
    IN  IF e.ok THEN e ELSE BigQueryClient_create_table(e.c, t, env)

BigQueryClient_delete_partition(c, t, d, env) == ClientQueryDelete(c, t, d, env)

\* Faulty variant of insert_rows (sensitivity of C12): the test on the errors
\* insert_rows_json returns is inverted.
BigQueryClient_insert_rows_Inverted(c, t, rows, env) ==
    IF rows = <<>>
    THEN [c |-> c, ret |-> LoadResult("warning", 0, NoTable)]
    ELSE LET r == ClientInsertRowsJson(c, t, rows, env)
         IN  [c |-> r.c,
              ret |-> IF ~r.ok
                      THEN LoadResult("success", Len(rows), NoTable)
                      ELSE LoadResult("error", 0, NoTable)]

BigQueryClient_insert_rows(c, t, rows, env) ==
    IF rows = <<>>
    THEN [c |-> c, ret |-> LoadResult("warning", 0, NoTable)]
    ELSE LET r == ClientInsertRowsJson(c, t, rows, env)
         IN  [c |-> r.c,
              ret |-> IF r.ok
                      THEN LoadResult("success", Len(rows), NoTable)
                      ELSE LoadResult("error", 0, NoTable)]

\* Faulty variants of load_report (sensitivity of C2 and C6): the insert is
\* issued before the partition delete; an empty report is reported "success".
BigQueryClient_load_report_InsertFirst(c, t, data, replace_partition, env) ==
    IF data = <<>>
    THEN [c |-> c, ret |-> LoadResult("warning", 0, t)]
    ELSE LET r  == BigQueryClient_insert_rows(c, t, data, env)
             c1 == IF replace_partition
                   THEN BigQueryClient_delete_partition(r.c, t, data[1].date, env).c
                   ELSE r.c
         IN  [c |-> c1, ret |-> [r.ret EXCEPT !.table = t]]

BigQueryClient_load_report_EmptySuccess(c, t, data, replace_partition, env) ==
    IF data = <<>>
    THEN [c |-> c, ret |-> LoadResult("success", 0, t)]
    ELSE LET c1 == IF replace_partition
                   THEN BigQueryClient_delete_partition(c, t, data[1].date, env).c
                   ELSE c
             r  == BigQueryClient_insert_rows(c1, t, data, env)
         IN  [c |-> r.c, ret |-> [r.ret EXCEPT !.table = t]]

\* Faulty variant of load_report (sensitivity of C11): a failed partition
\* delete ends the load with an error.
BigQueryClient_load_report_StopOnDelete(c, t, data, replace_partition, env) ==
    IF data = <<>>
    THEN [c |-> c, ret |-> LoadResult("warning", 0, t)]
    ELSE LET d == BigQueryClient_delete_partition(c, t, data[1].date, env)
         IN  IF replace_partition /\ ~d.ok
             THEN [c |-> d.c, ret |-> LoadResult("error", 0, t)]
             ELSE LET r == BigQueryClient_insert_rows(
                               IF replace_partition THEN d.c ELSE c, t, data, env)
                  IN  [c |-> r.c, ret |-> [r.ret EXCEPT !.table = t]]

BigQueryClient_load_report(c, t, data, replace_partition, env) ==
    IF data = <<>>
    THEN [c |-> c, ret |-> LoadResult("warning", 0, t)]
    ELSE LET c1 == IF replace_partition
                   THEN BigQueryClient_delete_partition(c, t, data[1].date, env).c
                   ELSE c
             r  == BigQueryClient_insert_rows(c1, t, data, env)
         IN  [c |-> r.c, ret |-> [r.ret EXCEPT !.table = t]]

\* ----------------------------------------------- ga4_campaign: ga4_extractor.py
\* run_report + extract_dimension: the fetch re-raises; every row keeps its own
\* date dimension (all catalog reports request "date").
extract_dimension(c, run, key, table_prefix, env) ==
    LET f == ClientRunReport(c, key, env)
    IN  [c |-> f.c, ok |-> f.ok, table_name |-> Prefixed(table_prefix, TableOf(key)),
         data |-> Enrich(run, f.rows)]

\* ------------------------------------------------------ ga4_campaign: main.py
\* Faulty variant of extract_single (sensitivity of C5): the table is ensured
\* before the report key is looked up.
extract_single_LateLookup(s, run, key, table_prefix, env) ==
    LET c1 == BigQueryClient_ensure_table_exists(Ctx(s), TableOf(key), env).c
    IN  IF key \notin Catalog
        THEN [c |-> c1, resp |-> Resp(404, "error", "not_found", Catalog, NoLoad, FALSE)]
        ELSE LET x == extract_dimension(c1, run, key, table_prefix, env)
             IN  IF ~x.ok
                 THEN [c |-> x.c, resp |-> Resp(500, "error", "source", {}, NoLoad, FALSE)]
                 ELSE LET l == BigQueryClient_load_report(x.c, x.table_name, x.data, TRUE, env)
                      IN  [c |-> l.c, resp |-> Resp(200, "success", "none", {}, l.ret, FALSE)]

\* Faulty variant of extract_single (sensitivity of C27): the report is fetched
\* before the table is ensured.
extract_single_FetchFirst(s, run, key, table_prefix, env) ==
    IF key \notin Catalog
    THEN [c |-> Ctx(s), resp |-> Resp(404, "error", "not_found", Catalog, NoLoad, FALSE)]
    ELSE LET x == extract_dimension(Ctx(s), run, key, table_prefix, env)
         IN  IF ~x.ok
             THEN [c |-> x.c, resp |-> Resp(500, "error", "source", {}, NoLoad, FALSE)]
             ELSE LET c1 == BigQueryClient_ensure_table_exists(x.c, TableOf(key), env).c
                      l  == BigQueryClient_load_report(c1, x.table_name, x.data, TRUE, env)
                  IN  [c |-> l.c, resp |-> Resp(200, "success", "none", {}, l.ret, FALSE)]

\* POST /extract/<dimension_key>
extract_single(s, run, key, table_prefix, env) ==
    IF key \notin Catalog
    THEN [c |-> Ctx(s), resp |-> Resp(404, "error", "not_found", Catalog, NoLoad, FALSE)]
    ELSE LET c1 == BigQueryClient_ensure_table_exists(Ctx(s), TableOf(key), env).c
             x  == extract_dimension(c1, run, key, table_prefix, env)
         IN  IF ~x.ok
             THEN [c |-> x.c, resp |-> Resp(500, "error", "source", {}, NoLoad, FALSE)]
             ELSE LET l == BigQueryClient_load_report(x.c, x.table_name, x.data, TRUE, env)
                  IN  [c |-> l.c, resp |-> Resp(200, "success", "none", {}, l.ret, FALSE)]

\* ------------------------------------------------------- ga4_generic: ga4.py
\* extract_dimension_report: ValueError for a key outside DIMENSION_REPORTS,
\* the fetch re-raises; err is "none", "not_found" or "source".
extract_dimension_report(c, run, key, env) ==
    IF key \notin Catalog
    THEN [c |-> c, err |-> "not_found", table_name |-> NoTable, data |-> <<>>]
    ELSE LET f == ClientRunReport(c, key, env)
         IN  [c |-> f.c, err |-> IF f.ok THEN "none" ELSE "source",
              table_name |-> TableOf(key), data |-> Enrich(run, f.rows)]

\* --------------------------------------------------- ga4_generic: bigquery.py
table_exists(c, t, env) == ClientGetTable(c, t, env)

create_table(c, t, env) == ClientCreateTable(c, t, env)

ensure_table_exists(c, t, env) ==
    LET e == table_exists(c, t, env)
    IN  IF e.ok THEN e ELSE create_table(e.c, t, env)

delete_partition(c, t, d, env) == ClientQueryDelete(c, t, d, env)

insert_rows(c, t, rows, env) ==
    IF rows = <<>>
    THEN [c |-> c, ret |-> LoadResult("warning", 0, NoTable)]
    ELSE LET r == ClientInsertRowsJson(c, t, rows, env)
         IN  [c |-> r.c,
              ret |-> IF r.ok
                      THEN LoadResult("success", Len(rows), NoTable)
                      ELSE LoadResult("error", 0, NoTable)]

load_report_to_bigquery(c, t, data, replace_partition, env) ==
    IF t = NoTable
    THEN [c |-> c, ret |-> LoadResult("error", 0, NoTable)]
    ELSE IF data = <<>>
    THEN [c |-> c, ret |-> LoadResult("warning", 0, t)]
    ELSE LET c1 == ensure_table_exists(c, t, env).c
             c2 == IF replace_partition
                   THEN delete_partition(c1, t, data[1].date, env).c
                   ELSE c1
             r  == insert_rows(c2, t, data, env)
         IN  [c |-> r.c, ret |-> [r.ret EXCEPT !.table = t]]

\* One report through the library: extract_dimension_report, then
\* load_report_to_bigquery on what it returned; an exception reaches the caller.
generic_single(s, run, key, env) ==
    LET x == extract_dimension_report(Ctx(s), run, key, env)
    IN  IF x.err # "none"
        THEN [c |-> x.c, resp |-> Resp(0, "error", x.err, {}, NoLoad, TRUE)]
        ELSE LET l == load_report_to_bigquery(x.c, x.table_name, x.data, TRUE, env)
             IN  [c |-> l.c,
                  resp |-> Resp(0, l.ret.status, "none", {}, l.ret, FALSE)]

\* ------------------------------------- ga4_manager: src/bigquery_writer.py
\* ensure_dataset_exists: a failed create_dataset raises.
BigQueryWriter_ensure_dataset_exists(c, env) ==
    LET g == ClientGetDataset(c)
    IN  IF g.ok THEN g ELSE ClientCreateDataset(g.c, env)

\* -------------------------------------- ga4_manager: src/report_manager.py
\* _create_table_with_schema: a failed create_table raises.
ReportManager_create_table_with_schema(c, t, env) ==
    LET g == ClientGetTable(c, t, env)
    IN  IF g.ok THEN g ELSE ClientCreateTable(g.c, t, env)

\* run_dimension_report: err # "none" is the exception it raises.
ReportManager_run_dimension_report(c, run, key, env) ==
    IF key \notin Catalog
    THEN [c |-> c, err |-> "not_found", ret |-> NoLoad]
    ELSE LET f    == ClientRunReport(c, key, env)
             rows == Enrich(run, f.rows)
             t    == TableOf(key)
         IN  IF ~f.ok THEN [c |-> f.c, err |-> "source", ret |-> NoLoad]
             ELSE IF rows = <<>>
             THEN [c |-> f.c, err |-> "none", ret |-> LoadResult("success", 0, t)]
             ELSE LET d == BigQueryWriter_ensure_dataset_exists(f.c, env)
                  IN  IF ~d.ok THEN [c |-> d.c, err |-> "create_dataset", ret |-> NoLoad]
                      ELSE LET e == ReportManager_create_table_with_schema(d.c, t, env)
                           IN  IF ~e.ok
                               THEN [c |-> e.c, err |-> "create_table", ret |-> NoLoad]
                               ELSE LET i == ClientInsertRowsJson(e.c, t, rows, env)
                                    IN  IF ~i.ok
                                        THEN [c |-> i.c, err |-> "insert", ret |-> NoLoad]
                                        ELSE [c |-> i.c, err |-> "none",
                                              ret |-> LoadResult("success", Len(rows), t)]

\* ------------------------------------------------------- ga4_manager: main.py
\* POST /report/dimension/<table_name>: ValueError -> 400, Exception -> 500.
run_dimension_report(s, run, key, env) ==
    LET r == ReportManager_run_dimension_report(Ctx(s), run, key, env)
    IN  [c |-> r.c,
         resp |-> IF r.err = "none" THEN Resp(200, "success", "none", {}, r.ret, FALSE)
                  ELSE IF r.err = "not_found"
                  THEN Resp(400, "error", "not_found", {}, NoLoad, FALSE)
                  ELSE Resp(500, "error", r.err, {}, NoLoad, FALSE)]

\* ------------------------------------------- twitter: src/bigquery_writer.py
TwitterWriter_insert_rows(c, t, rows, env) ==
    IF rows = <<>>
    THEN [c |-> c, ret |-> LoadResult("warning", 0, NoTable)]
    ELSE LET r == ClientInsertRowsJson(c, t, rows, env)
         IN  [c |-> r.c,
              ret |-> IF r.ok
                      THEN LoadResult("success", Len(rows), NoTable)
                      ELSE LoadResult("error", 0, NoTable)]

TwitterWriter_ensure_table_exists(c, t, env) ==
    LET e == ClientGetTable(c, t, env)
    IN  IF e.ok THEN e ELSE ClientCreateTable(e.c, t, env)

\* ----------------------------------------------------------- twitter: main.py
\* ensure_tables_exist: every configured table, results not inspected.
ensure_tables_exist(c, env) ==
    LET c1 == TwitterWriter_ensure_table_exists(c, TwitterTables[1], env).c
        c2 == TwitterWriter_ensure_table_exists(c1, TwitterTables[2], env).c
    IN  TwitterWriter_ensure_table_exists(c2, TwitterTables[3], env).c

\* extract_and_load_profile: the user lookup re-raises; an empty answer is an
\* "error" result; one row is inserted.
extract_and_load_profile(c, run, env) ==
    LET f == ClientRunReport(c, "profile", env)
        profile_data == Enrich(run, IF f.rows = <<>> THEN <<>> ELSE <<f.rows[1]>>)
    IN  IF ~f.ok THEN [c |-> f.c, err |-> "source", ret |-> NoLoad]
        ELSE IF profile_data = <<>>
        THEN [c |-> f.c, err |-> "none", ret |-> LoadResult("error", 0, NoTable)]
        ELSE LET r == TwitterWriter_insert_rows(f.c, ProfileTable, profile_data, env)
             IN  [c |-> r.c, err |-> "none", ret |-> [r.ret EXCEPT !.table = ProfileTable]]

\* extract_and_load_posts: the tweet fetch re-raises; no partition is deleted.
extract_and_load_posts(c, run, env) ==
    LET f == ClientRunReport(c, "posts", env)
        posts_data == Enrich(run, f.rows)
    IN  IF ~f.ok THEN [c |-> f.c, err |-> "source", ret |-> NoLoad]
        ELSE IF posts_data = <<>>
        THEN [c |-> f.c, err |-> "none", ret |-> LoadResult("warning", 0, NoTable)]
        ELSE LET r == TwitterWriter_insert_rows(f.c, PostsTable, posts_data, env)
             IN  [c |-> r.c, err |-> "none", ret |-> [r.ret EXCEPT !.table = PostsTable]]

extract_and_load_additional_metrics(c, run, env) ==
    LET f == ClientRunReport(c, "additional_metrics", env)
        metrics_data == Enrich(run, f.rows)
    IN  IF ~f.ok THEN [c |-> f.c, err |-> "source", ret |-> NoLoad]
        ELSE IF metrics_data = <<>>
        THEN [c |-> f.c, err |-> "none", ret |-> LoadResult("warning", 0, NoTable)]
        ELSE LET r == TwitterWriter_insert_rows(f.c, MetricsTable, metrics_data, env)
             IN  [c |-> r.c, err |-> "none", ret |-> [r.ret EXCEPT !.table = MetricsTable]]

\* POST /report/posts/<username>: tables ensured, then the posts report; the
\* report's own status is the response's status, an exception answers 500.
run_posts_report(s, run, env) ==
    LET c1 == ensure_tables_exist(Ctx(s), env)
        r  == extract_and_load_posts(c1, run, env)
    IN  [c |-> r.c,
         resp |-> IF r.err = "none"
                  THEN Resp(200, r.ret.status, "none", {}, r.ret, FALSE)
                  ELSE Resp(500, "error", r.err, {}, NoLoad, FALSE)]

\* ------------------------------------------------------ single-report requests
\* The environment's choices are normalised: a call that was not made has the
\* default outcome, and a call that was made has the outcome logged for it.
Canon(env, calls) ==
    LET Made(op) == {i \in 1..Len(calls) : calls[i].op = op}
        Agrees(op, v) == IF Made(op) = {} THEN v
                         ELSE \A i \in Made(op) : calls[i].ok = v
        Free == {i \in Made("create_table") : calls[i].arg # "conflict"}
    IN  /\ Agrees("run_report", env.fetch)
        /\ Agrees("create_dataset", env.dsCreate)
        /\ env.get <=> (\A i \in Made("get_table") : calls[i].arg # "unavailable")
        /\ IF Free = {} THEN env.tblCreate
           ELSE \A i \in Free : calls[i].ok = env.tblCreate
        /\ Agrees("delete", env.del)
        /\ Agrees("insert", env.ins)
        /\ (Made("run_report") = {} \/ ~env.fetch) => env.rows = <<>>

SingleKeys == {"CAMPAIGN", UnknownKey}

NoAccount == [calls |-> <<>>, reports |-> <<>>, rows |-> 0]

NoBatch ==
    [pc |-> "idle", i |-> 1, table_prefix |-> NoPrefix, setup |-> <<>>,
     extr |-> <<>>, xsum |-> NoCounts,
     account |-> NoAccount, results |-> <<>>, sum |-> NoCounts, resp |-> NoResp]

\* One handled request, as kept in hist.
Run(key, env, r) ==
    [key |-> key, rows |-> env.rows, calls |-> r.c.calls, resp |-> r.resp]

Handle(key, env, r) ==
    /\ Canon(env, r.c.calls)
    /\ sink' = r.c.sink
    /\ hist' = Append(hist, Run(key, env, r))
    /\ UNCHANGED <<connector, batch, clock, req, unit, gcp_connection, threads, dag, pager>>

ExtractSingle ==
    /\ connector = "ga4_campaign" /\ Len(hist) < MaxRuns /\ batch = NoBatch
    /\ \E key \in SingleKeys, table_prefix \in Prefixes, env \in Envs :
           Handle(key, env,
                  extract_single(sink, Len(hist) + 1, key, table_prefix, env))

GenericSingle ==
    /\ connector = "ga4_generic" /\ Len(hist) < MaxRuns /\ batch = NoBatch
    /\ \E key \in SingleKeys, env \in Envs :
           Handle(key, env, generic_single(sink, Len(hist) + 1, key, env))

RunDimensionReport ==
    /\ connector = "ga4_manager" /\ Len(hist) < MaxRuns /\ batch = NoBatch
    /\ \E key \in SingleKeys, env \in Envs :
           Handle(key, env, run_dimension_report(sink, Len(hist) + 1, key, env))

RunPostsReport ==
    /\ connector = "twitter" /\ Len(hist) < MaxRuns /\ batch = NoBatch
    /\ \E env \in Envs :
           Handle("posts", env, run_posts_report(sink, Len(hist) + 1, env))

\* Requests one ga4_campaign process handles at the same time (the Flask
\* server runs one thread per request).
MaxRequests == 2
Requests == 1..MaxRequests

\* A client object is named by the request that constructed it; NoClient is None.
NoClient == 0

\* GCPConnection.__init__
GCPConnection == [connected |-> FALSE, bigquery_client |-> NoClient,
                  ga4_client |-> NoClient]

\* A thread's request: where it is, the clients it was handed, the rows it built.
NoThread == [pc |-> "idle", bigquery |-> NoClient, ga4 |-> NoClient, data |-> <<>>]

\* DEFAULT_ARGS['retries']
Retries == 3

\* The GA4 properties of the Airflow variable ga4_property_ids.
Properties == {"p1", "p2"}
TaskIds == {"validate_config", "consolidate_results"} \cup Properties

\* A task instance before its first try; api is the outcome of its last
\* call_api, calls the number of requests it has sent.
NoTask == [state |-> "scheduled", try_number |-> 1, api |-> "-", calls |-> 0,
           status |-> "-"]
NoDag == [t \in TaskIds |-> NoTask]

\* Pagination tokens the Twitter API may hand out; NoToken is None.  The page
\* requested with token k is page k, the first page is page NoToken.
MaxPages == 2
NoToken == 0
Tokens == 1..MaxPages
Pages == {NoToken} \cup Tokens

\* all_tweets is kept as the number of copies of each page's tweets it holds,
\* counted up to Many; page_count is counted up to one more than there are pages.
Many == 2
NoPager == [pc |-> "idle", pagination_token |-> NoToken, page_count |-> 0,
            all_tweets |-> [k \in Pages |-> 0]]

Init ==
    /\ pager = NoPager
    /\ dag = NoDag
    /\ gcp_connection = GCPConnection
    /\ threads = [r \in Requests |-> NoThread]
    /\ connector \in Connectors
    /\ sink \in [dataset : BOOLEAN, exists : {{}}, rows : {[t \in Tables |-> {}]}]
    /\ hist = <<>>
    /\ batch = NoBatch
    /\ clock = Len(Days) - 1
    /\ req = NoReq
    /\ unit = NoUnit

Next == ExtractSingle \/ GenericSingle \/ RunDimensionReport \/ RunPostsReport

Spec == Init /\ [][Next]_vars

\* ============================================================ batch requests
\* A batch runs every report of the catalog, or every configured account.
BatchKeys == <<"CAMPAIGN", "GEOGRAPHIC">>
Accounts == <<"conta1", "conta2">>

BatchResponses == {<<>>, <<"2024-01-15">>, <<"2024-01-15", "2024-01-16">>}
BatchEnvs == {e \in Envs : e.rows \in BatchResponses}

\* The loop variable moves on; after the last key the batch enters its next stage.
Advance(b, n, nextpc) ==
    IF b.i = n THEN [b EXCEPT !.i = 1, !.pc = nextpc] ELSE [b EXCEPT !.i = @ + 1]

Bump(counts, ok) ==
    IF ok THEN [counts EXCEPT !.successful = @ + 1]
          ELSE [counts EXCEPT !.failed = @ + 1]

\* --------------------------------------------- ga4_campaign: bigquery_client.py
BigQueryClient_create_dataset(c, env) ==
    LET g == ClientGetDataset(c)
    IN  IF g.ok THEN g ELSE ClientCreateDataset(g.c, env)

\* create_all_tables: the dataset first, then every catalog table; no result
\* is inspected.
BigQueryClient_create_all_tables(c, env) ==
    LET c0 == BigQueryClient_create_dataset(c, env).c
        c1 == BigQueryClient_ensure_table_exists(c0, TableOf(BatchKeys[1]), env).c
    IN  BigQueryClient_ensure_table_exists(c1, TableOf(BatchKeys[2]), env).c

\* ----------------------------------------------- ga4_campaign: ga4_extractor.py
\* One iteration of extract_all_dimensions' loop: the exception of a key is
\* caught and recorded as that key's entry.
extract_all_dimensions(b, s, env) ==
    LET key == BatchKeys[b.i]
        x   == extract_dimension(Ctx(s), b.i, key, b.table_prefix, env)
        e   == IF x.ok
               THEN Extraction(key, "none", x.table_name, x.data, x.c.calls)
               ELSE Extraction(key, "source", NoTable, <<>>, x.c.calls)
    IN  [sink  |-> x.c.sink,
         batch |-> [b EXCEPT !.extr = Append(@, e), !.xsum = Bump(@, x.ok)]]

\* ------------------------------------------------------ ga4_campaign: main.py
\* Faulty variant of the load loop (sensitivity of C3): the loop is left at the
\* first key whose extraction failed.
run_full_extraction_load_Break(b, s, env) ==
    LET x == b.extr[b.i]
    IN  IF x.err # "none"
        THEN [sink  |-> s,
              batch |-> [b EXCEPT !.i = Len(BatchKeys), !.results =
                            Append(@, Entry(x.key, "skipped", x.err, 0, <<>>, <<>>))]]
        ELSE LET l == BigQueryClient_load_report(Ctx(s), x.table_name, x.data, TRUE, env)
             IN  [sink  |-> l.c.sink,
                  batch |-> [b EXCEPT
                      !.results = Append(@, Entry(x.key, l.ret.status,
                                    IF l.ret.status = "error" THEN "insert" ELSE "none",
                                    l.ret.rows_inserted, l.c.calls, <<>>)),
                      !.sum = Bump(@, l.ret.status = "success")]]

\* One iteration of run_full_extraction's load loop: a key whose extraction
\* failed is skipped and counted nowhere; any status but "success" counts as
\* failed.
run_full_extraction_load(b, s, env) ==
    LET x == b.extr[b.i]
    IN  IF x.err # "none"
        THEN [sink  |-> s,
              batch |-> [b EXCEPT !.results =
                            Append(@, Entry(x.key, "skipped", x.err, 0, <<>>, <<>>))]]
        ELSE LET l == BigQueryClient_load_report(Ctx(s), x.table_name, x.data, TRUE, env)
             IN  [sink  |-> l.c.sink,
                  batch |-> [b EXCEPT
                      !.results = Append(@, Entry(x.key, l.ret.status,
                                    IF l.ret.status = "error" THEN "insert" ELSE "none",
                                    l.ret.rows_inserted, l.c.calls, <<>>)),
                      !.sum = Bump(@, l.ret.status = "success")]]

\* What run_full_extraction returns once both loops have run.
run_full_extraction(b) ==
    BatchResp(0, "success", "none", b.xsum,
              Counts(b.sum.successful + b.sum.failed, b.sum.successful, b.sum.failed),
              <<>>)

\* POST /extract: 200 when the result's status is "success", else 500.
extract_all(result) ==
    [result EXCEPT !.code = IF result.status = "success" THEN 200 ELSE 500]

\* ------------------------------------------------------- ga4_generic: ga4.py
\* One iteration of extract_all_reports' loop.
extract_all_reports(b, s, env) ==
    LET key == BatchKeys[b.i]
        x   == extract_dimension_report(Ctx(s), b.i, key, env)
        e   == IF x.err = "none"
               THEN Extraction(key, "none", x.table_name, x.data, x.c.calls)
               ELSE Extraction(key, x.err, NoTable, <<>>, x.c.calls)
    IN  [sink  |-> x.c.sink,
         batch |-> [b EXCEPT !.extr = Append(@, e),
                             !.xsum = [Bump(@, x.err = "none") EXCEPT !.total = @ + 1]]]

\* --------------------------------------------------- ga4_generic: bigquery.py
\* One iteration of load_all_reports_to_bigquery's loop: a skipped key leaves
\* the loop body before total_tables is incremented.
load_all_reports_to_bigquery(b, s, env) ==
    LET x == b.extr[b.i]
    IN  IF x.err # "none"
        THEN [sink  |-> s,
              batch |-> [b EXCEPT !.results =
                            Append(@, Entry(x.key, "skipped", x.err, 0, <<>>, <<>>))]]
        ELSE LET l == load_report_to_bigquery(Ctx(s), x.table_name, x.data, TRUE, env)
             IN  [sink  |-> l.c.sink,
                  batch |-> [b EXCEPT
                      !.results = Append(@, Entry(x.key, l.ret.status,
                                    IF l.ret.status = "error" THEN "insert" ELSE "none",
                                    l.ret.rows_inserted, l.c.calls, <<>>)),
                      !.sum = [Bump(@, l.ret.status = "success")
                                  EXCEPT !.total = @ + 1]]]

\* -------------------------------------- ga4_manager: src/report_manager.py
\* Faulty variant of the loop (sensitivity of C4): the exception handler
\* replaces the collected results by the failing key's entry.
ReportManager_run_all_dimension_reports_Reset(b, s, env) ==
    LET key == BatchKeys[b.i]
        r   == ReportManager_run_dimension_report(Ctx(s), b.i, key, env)
    IN  [sink |-> r.c.sink,
         batch |-> IF r.err = "none"
                   THEN [b EXCEPT !.results = Append(@, Entry(key, r.ret.status,
                               "none", r.ret.rows_inserted, r.c.calls, <<>>))]
                   ELSE [b EXCEPT !.results =
                               <<Entry(key, "error", r.err, 0, r.c.calls, <<>>)>>]]

\* One iteration of run_all_dimension_reports' loop.
ReportManager_run_all_dimension_reports(b, s, env) ==
    LET key == BatchKeys[b.i]
        r   == ReportManager_run_dimension_report(Ctx(s), b.i, key, env)
        e   == IF r.err = "none"
               THEN Entry(key, r.ret.status, "none", r.ret.rows_inserted, r.c.calls, <<>>)
               ELSE Entry(key, "error", r.err, 0, r.c.calls, <<>>)
    IN  [sink |-> r.c.sink, batch |-> [b EXCEPT !.results = Append(@, e)]]

\* run_all_reports: the statistics computed over the collected results.
ReportManager_run_all_reports(results) ==
    LET ok == Cardinality({j \in 1..Len(results) : results[j].status = "success"})
        ko == Cardinality({j \in 1..Len(results) : results[j].status # "success"})
    IN  Counts(ok + ko, ok, ko)

\* ------------------------------------------------------- ga4_manager: main.py
\* POST /report/all
run_all_reports(results) ==
    BatchResp(200, "success", "none", NoCounts,
              ReportManager_run_all_reports(results), results)

\* ----------------------------------------------------------- twitter: main.py
ReportStatus(r) == IF r.err = "none" THEN r.ret.status ELSE "error"

\* process_account up to its first report: a missing bearer token raises; the
\* tables are ensured and the results not inspected.
process_account(s, token, env) ==
    IF ~token
    THEN [c |-> Ctx(s), raised |-> TRUE]
    ELSE [c |-> ensure_tables_exist(Ctx(s), env), raised |-> FALSE]

\* One of process_account's three reports, in its own try/except.
process_account_report(s, run, j, env) ==
    LET r == CASE j = 1 -> extract_and_load_profile(Ctx(s), run, env)
               [] j = 2 -> extract_and_load_posts(Ctx(s), run, env)
               [] OTHER -> extract_and_load_additional_metrics(Ctx(s), run, env)
    IN  [sink |-> r.c.sink, calls |-> r.c.calls, status |-> ReportStatus(r),
         rows |-> IF ReportStatus(r) = "success" THEN r.ret.rows_inserted ELSE 0]

\* summary.failed of an account's result; 1 when the result has no summary.
SummaryFailed(e) ==
    IF e.reports = <<>> THEN 1
    ELSE Cardinality({j \in 1..Len(e.reports) : e.reports[j] = "error"})

\* POST /report/batch: the answer built after the loop.
run_batch_reports(results) ==
    LET ok == Cardinality({j \in 1..Len(results) : SummaryFailed(results[j]) = 0})
    IN  BatchResp(200, "success", "none", NoCounts,
                  Counts(Len(results), ok, Len(results) - ok), results)

\* ----------------------------------------------------------- batch actions
\* A step leaves the warehouse as its calls left it.
Step(r) ==
    /\ sink' = r.sink
    /\ UNCHANGED <<connector, hist, clock, req, unit, gcp_connection, threads, dag, pager>>

\* ga4_campaign, POST /extract: connection and table initialisation.
RunFullExtraction ==
    /\ connector = "ga4_campaign" /\ batch.pc = "idle"
    /\ \E connect \in BOOLEAN, init_tables \in BOOLEAN,
          table_prefix \in Prefixes, env \in BatchEnvs :
          LET c == IF connect /\ init_tables
                   THEN BigQueryClient_create_all_tables(Ctx(sink), env)
                   ELSE Ctx(sink)
          IN  /\ Canon(env, c.calls)
              /\ ~connect => (init_tables /\ table_prefix = NoPrefix)
              /\ Step(c)
              /\ batch' = IF connect
                          THEN [batch EXCEPT !.pc = "extract", !.setup = c.calls,
                                    !.table_prefix = table_prefix,
                                    !.xsum = Counts(Len(BatchKeys), 0, 0)]
                          ELSE [batch EXCEPT !.pc = "done",
                                    !.resp = extract_all(BatchResp(0, "error",
                                        "gcp_connection", NoCounts, NoCounts, <<>>))]

ExtractAllDimensions ==
    /\ connector = "ga4_campaign" /\ batch.pc = "extract"
    /\ \E env \in BatchEnvs :
          LET r == extract_all_dimensions(batch, sink, env)
          IN  /\ Canon(env, LastOf(r.batch.extr).calls)
              /\ Step(r)
              /\ batch' = Advance(r.batch, Len(BatchKeys), "load")

RunFullExtractionLoad ==
    /\ connector = "ga4_campaign" /\ batch.pc = "load"
    /\ \E env \in BatchEnvs :
          LET r == run_full_extraction_load(batch, sink, env)
              b == Advance(r.batch, Len(BatchKeys), "done")
          IN  /\ Canon(env, LastOf(r.batch.results).calls)
              /\ Step(r)
              /\ batch' = IF b.pc = "done"
                          THEN [b EXCEPT !.resp = extract_all(run_full_extraction(b))]
                          ELSE b

\* ga4_generic: extract_all_reports, then load_all_reports_to_bigquery on what
\* it returned.
ExtractAllReports ==
    /\ connector = "ga4_generic" /\ batch.pc \in {"idle", "extract"}
    /\ \E env \in BatchEnvs :
          LET r == extract_all_reports(batch, sink, env)
          IN  /\ Canon(env, LastOf(r.batch.extr).calls)
              /\ Step(r)
              /\ batch' = Advance([r.batch EXCEPT !.pc = "extract"],
                                  Len(BatchKeys), "load")

LoadAllReportsToBigquery ==
    /\ connector = "ga4_generic" /\ batch.pc = "load"
    /\ \E env \in BatchEnvs :
          LET r == load_all_reports_to_bigquery(batch, sink, env)
              b == Advance(r.batch, Len(BatchKeys), "done")
          IN  /\ Canon(env, LastOf(r.batch.results).calls)
              /\ Step(r)
              /\ batch' = IF b.pc = "done"
                          THEN [b EXCEPT !.resp = BatchResp(0, "none", "none",
                                                    b.xsum, b.sum, b.results)]
                          ELSE b

\* ga4_manager, POST /report/all: credentials, then ReportManager.run_all_reports.
RunAllReports ==
    /\ connector = "ga4_manager" /\ batch.pc = "idle"
    /\ \E credentials \in BOOLEAN :
          batch' = IF credentials
                   THEN [batch EXCEPT !.pc = "run"]
                   ELSE [batch EXCEPT !.pc = "done",
                             !.resp = BatchResp(500, "error", "credentials",
                                                NoCounts, NoCounts, <<>>)]
    /\ UNCHANGED <<connector, sink, hist, clock, req, unit, gcp_connection, threads, dag, pager>>

RunAllDimensionReports ==
    /\ connector = "ga4_manager" /\ batch.pc = "run"
    /\ \E env \in BatchEnvs :
          LET r == ReportManager_run_all_dimension_reports(batch, sink, env)
              b == Advance(r.batch, Len(BatchKeys), "done")
          IN  /\ Canon(env, LastOf(r.batch.results).calls)
              /\ Step(r)
              /\ batch' = IF b.pc = "done"
                          THEN [b EXCEPT !.resp = run_all_reports(b.results)]
                          ELSE b

\* twitter, POST /report/batch: the next account's process_account begins; its
\* exception is caught and recorded as the account's entry.
ProcessAccount ==
    /\ connector = "twitter" /\ batch.pc \in {"idle", "run"}
    /\ \E token \in BOOLEAN, env \in BatchEnvs :
          LET r == process_account(sink, token, env)
              e == Entry(Accounts[batch.i], "error", "token", 0, <<>>, <<>>)
              b == Advance([batch EXCEPT !.pc = "run", !.results = Append(@, e)],
                           Len(Accounts), "done")
          IN  /\ Canon(env, r.c.calls)
              /\ Step(r.c)
              /\ batch' = IF ~r.raised
                          THEN [batch EXCEPT !.pc = "report",
                                    !.account = [NoAccount EXCEPT !.calls = r.c.calls]]
                          ELSE IF b.pc = "done"
                          THEN [b EXCEPT !.resp = run_batch_reports(b.results)]
                          ELSE b

\* The next report of the account in progress; after the third one the
\* account's entry is recorded, and after the last account the answer is built.
ProcessAccountReport ==
    /\ connector = "twitter" /\ batch.pc = "report"
    /\ \E env \in BatchEnvs :
          LET j  == Len(batch.account.reports) + 1
              r  == process_account_report(sink, batch.i, j, env)
              a  == [calls   |-> batch.account.calls \o r.calls,
                     reports |-> Append(batch.account.reports, r.status),
                     rows    |-> batch.account.rows + r.rows]
              e  == Entry(Accounts[batch.i], "none", "none", a.rows, a.calls, a.reports)
              b  == Advance([batch EXCEPT !.pc = "run", !.account = NoAccount,
                                          !.results = Append(@, e)],
                            Len(Accounts), "done")
          IN  /\ Canon(env, r.calls)
              /\ Step(r)
              /\ batch' = IF j < 3 THEN [batch EXCEPT !.account = a]
                          ELSE IF b.pc = "done"
                          THEN [b EXCEPT !.resp = run_batch_reports(b.results)]
                          ELSE b

NextBatch ==
    \/ RunFullExtraction \/ ExtractAllDimensions \/ RunFullExtractionLoad
    \/ ExtractAllReports \/ LoadAllReportsToBigquery
    \/ RunAllReports \/ RunAllDimensionReports
    \/ ProcessAccount \/ ProcessAccountReport

SpecBatch == Init /\ [][NextBatch]_vars

\* ================================================= single-report properties
LastRun == hist[Len(hist)]

CallsOf(run, op) == {i \in 1..Len(run.calls) : run.calls[i].op = op}

Succeeded(run, op) ==
    /\ CallsOf(run, op) # {}
    /\ \A i \in CallsOf(run, op) : run.calls[i].ok

\* The run fetched its report and the Source answered with zero rows.
FetchedNothing(run) == Succeeded(run, "run_report") /\ run.rows = <<>>

RowsOfDate(t, d) == {r \in sink.rows[t] : r.date = d}

\* C1: two runs of one report with identical inputs on an initially empty
\* table, the partition delete succeeding both times, leave the table with
\* exactly as many rows as one successful run inserts.
C1_IdempotentReload ==
    ( /\ Len(hist) = 2
      /\ hist[1].key = hist[2].key
      /\ hist[1].rows = hist[2].rows
      /\ \A n \in 1..2 : /\ Succeeded(hist[n], "delete")
                         /\ hist[n].resp.load.status = "success" )
    => Cardinality(sink.rows[hist[2].resp.load.table])
         = hist[1].resp.load.rows_inserted

C5_UnknownKeyListsValidKeys ==
    \A n \in 1..Len(hist) :
        hist[n].key = UnknownKey =>
            /\ hist[n].resp.error = "not_found"
            /\ hist[n].resp.available = Catalog
            /\ hist[n].calls = <<>>

\* C5 (amended): a request for a report key outside the catalog ends in a
\* not-found error with no Source or Sink call; the ga4-campaign endpoint
\* answers 404 with the list of valid keys, ReportManager's endpoint answers
\* 400 without a list.
C5_UnknownKeyNoCalls ==
    \A n \in 1..Len(hist) :
        hist[n].key = UnknownKey =>
            /\ hist[n].resp.error = "not_found"
            /\ hist[n].resp.status = "error"
            /\ hist[n].resp.load = NoLoad
            /\ hist[n].calls = <<>>
            /\ connector = "ga4_campaign" =>
                  hist[n].resp.code = 404 /\ hist[n].resp.available = Catalog
            /\ connector = "ga4_manager" =>
                  hist[n].resp.code = 400 /\ hist[n].resp.available = {}

\* An unknown key is requested after a known key has been loaded with success.
C5_Witness ==
    /\ Len(hist) = 2
    /\ hist[1].key \in Catalog /\ Succeeded(hist[1], "insert")
    /\ hist[2].key = UnknownKey
    /\ sink.rows[TableOf(hist[1].key)] # {}

\* C6 (as stated): when the Source returns zero rows the load result has
\* status "warning" with zero rows inserted, and neither a partition delete
\* nor an insert is issued.
C6_ZeroRowsWarning ==
    \A n \in 1..Len(hist) :
        FetchedNothing(hist[n]) =>
            /\ hist[n].resp.load.status = "warning"
            /\ hist[n].resp.load.rows_inserted = 0
            /\ CallsOf(hist[n], "delete") = {}
            /\ CallsOf(hist[n], "insert") = {}

\* C6 (amended): when the Source returns zero rows, zero rows are inserted and
\* neither a partition delete nor an insert is issued; the load result has
\* status "warning", except from ReportManager.run_dimension_report, whose
\* result has status "success".
C6_ZeroRowsNoWrite ==
    \A n \in 1..Len(hist) :
        FetchedNothing(hist[n]) =>
            /\ hist[n].resp.load.status
                 = IF connector = "ga4_manager" THEN "success" ELSE "warning"
            /\ hist[n].resp.load.rows_inserted = 0
            /\ CallsOf(hist[n], "delete") = {}
            /\ CallsOf(hist[n], "insert") = {}

\* A report that loaded rows is run again and the Source returns zero rows:
\* the rows of the first run are still in the table.
C6_Witness ==
    /\ Len(hist) = 2
    /\ Succeeded(hist[1], "insert")
    /\ hist[1].key = hist[2].key
    /\ FetchedNothing(hist[2])
    /\ \E t \in Tables : \E r \in sink.rows[t] : r.run = 1

\* C10: within one report key's pipeline, once the fetch, the dataset creation
\* or the table creation has failed, no later call is made for that key (in
\* particular no partition delete and no insert), and the HTTP handlers record
\* the error instead of raising it.
C10_ShortCircuit ==
    \A n \in 1..Len(hist) :
        LET calls == hist[n].calls
            Terminal(i) == /\ calls[i].op \in {"run_report", "create_dataset",
                                               "create_table"}
                           /\ ~calls[i].ok
        IN  \A i \in 1..Len(calls) :
                Terminal(i) => /\ i = Len(calls)
                               /\ hist[n].resp.status = "error"
                               /\ connector \in {"ga4_campaign", "ga4_manager"}
                                    => ~hist[n].resp.raised

\* ========================================================= batch properties
\* The batch has answered after running its loops (no fatal setup error).
BatchDone == batch.pc = "done" /\ batch.resp.step = "none"

Entities == IF connector = "twitter" THEN Accounts ELSE BatchKeys

\* The entry records a terminal failure of its key or account.
EntityFailed(e) == e.status \in {"error", "skipped"} \/ "error" \in Range(e.reports)

FailedEntries == {j \in 1..Len(batch.results) : EntityFailed(batch.results[j])}

Fetched(calls, key) ==
    \E k \in 1..Len(calls) : calls[k].op = "run_report" /\ calls[k].arg = key

\* The pipeline of the i-th key or account was started.
Attempted(i) ==
    CASE connector \in {"ga4_campaign", "ga4_generic"} ->
            /\ Len(batch.extr) >= i
            /\ batch.extr[i].key = BatchKeys[i]
            /\ Fetched(batch.extr[i].calls, BatchKeys[i])
      [] connector = "ga4_manager" ->
            Fetched(batch.results[i].calls, BatchKeys[i])
      [] OTHER ->
            \/ batch.results[i].error = "token"
            \/ /\ Len(batch.results[i].reports) = 3
               /\ \A k \in {"profile", "posts", "additional_metrics"} :
                      Fetched(batch.results[i].calls, k)

C4_EarlierResultsKept ==
    [][ /\ \A j \in 1..Len(batch.results) :
              /\ Len(batch'.results) >= j
              /\ batch'.results[j] = batch.results[j]
        /\ \A j \in 1..Len(batch.extr) :
              /\ Len(batch'.extr) >= j
              /\ batch'.extr[j] = batch.extr[j] ]_vars

\* Key A loaded rows, then the fetch of key B raised; the batch has answered.
C4_Witness ==
    /\ BatchDone
    /\ connector = "ga4_manager"
    /\ batch.results[1].status = "success" /\ batch.results[1].rows_inserted > 0
    /\ batch.results[2].error = "source"

\* C7: the overall status a batch returns is "success" only if every report
\* key (every account) of the batch succeeded.
C7_SuccessOnlyIfAllSucceeded ==
    (batch.pc = "done" /\ batch.resp.status = "success") => FailedEntries = {}

\* C8: the ga4-campaign batch endpoint answers 200 with the failing keys'
\* errors embedded when some keys fail, and 500 when every key fails.
C8_BatchHttpStatus ==
    (connector = "ga4_campaign" /\ BatchDone) =>
        /\ FailedEntries = 1..Len(BatchKeys) => batch.resp.code = 500
        /\ (FailedEntries # {} /\ FailedEntries # 1..Len(BatchKeys)) =>
              /\ batch.resp.code = 200
              /\ \A j \in FailedEntries :
                    \E d \in Range(batch.resp.details) :
                        d.key = batch.results[j].key /\ d.status \in {"error", "skipped"}

\* C9: the summary a batch over N keys returns has total = N, failed = the
\* number of keys that ended in error at any step, successful = the number of
\* keys that did not, and successful + failed = total.
C9_SummaryCounts ==
    BatchDone =>
        /\ batch.resp.summary.total = Len(Entities)
        /\ batch.resp.summary.failed = Cardinality(FailedEntries)
        /\ batch.resp.summary.successful = Len(Entities) - Cardinality(FailedEntries)
        /\ batch.resp.summary.successful + batch.resp.summary.failed
             = batch.resp.summary.total

\* ============================================ partition delete and insert
\* C11: a failed partition delete is not raised to the caller: the request is
\* answered without an exception, and the insert of that report key is still
\* issued after the failed delete.
C11_DeleteFailureNotRaised ==
    \A n \in 1..Len(hist) :
        \A i \in CallsOf(hist[n], "delete") :
            ~hist[n].calls[i].ok =>
                /\ ~hist[n].resp.raised
                /\ hist[n].resp.error = "none"
                /\ \E j \in CallsOf(hist[n], "insert") :
                      /\ j > i
                      /\ hist[n].calls[j].table = hist[n].calls[i].table

\* The partition delete of the second load failed on an existing table and its
\* insert succeeded: the rows of both loads are in the table.
C11_Witness ==
    /\ Len(hist) = 2
    /\ Succeeded(hist[1], "insert")
    /\ \E i \in CallsOf(hist[2], "delete") :
          /\ ~hist[2].calls[i].ok
          /\ hist[2].calls[i].table \in sink.exists
          /\ \E r1, r2 \in sink.rows[hist[2].calls[i].table] :
                r1.run = 1 /\ r2.run = 2 /\ r1.date = r2.date
    /\ Succeeded(hist[2], "insert")
    /\ hist[2].resp.load.status = "success"

\* C12: when the insert fails after the partition delete succeeded, the delete
\* is not undone: the load reports an error and the table holds no row of
\* that partition key.
C12_NoRollback ==
    Len(hist) > 0 =>
        \A i \in CallsOf(LastRun, "delete") :
            (LastRun.calls[i].ok /\ LastRun.resp.load.status = "error") =>
                /\ RowsOfDate(LastRun.calls[i].table, LastRun.calls[i].arg) = {}
                /\ LastRun.resp.load.rows_inserted = 0

\* A first load put rows into the partition; the second load deleted them and
\* its insert failed: the rows of the first load are gone.
C12_Witness ==
    /\ Len(hist) = 2
    /\ Succeeded(hist[1], "insert")
    /\ hist[1].rows = hist[2].rows
    /\ Succeeded(hist[2], "delete")
    /\ CallsOf(hist[2], "insert") # {}
    /\ ~Succeeded(hist[2], "insert")
    /\ hist[2].resp.load.status = "error"
    /\ \E i \in CallsOf(hist[2], "delete") :
          RowsOfDate(hist[2].calls[i].table, hist[2].calls[i].arg) = {}


\* ====================================================== request admission
\* How each HTTP route admits a request and dates its query: what it checks
\* before its first network call, which date range reaches the Report Source,
\* and which partition date the rows of each report key carry.  io lists the
\* network calls in order: "credentials", "connect", "source", "sink".

\* ga4-campaign/ga4_extractor.py: yesterday by the process's clock.
get_date_range(now) ==
    LET date_str == strftime(Days[now - 1])
    IN  <<date_str, date_str>>

\* The date range a caller may give: none, or two days already past.
CallerRanges ==
    {<<>>} \cup {<<strftime(Days[a]), strftime(Days[b])>> :
                    a \in 1..(Len(Days) - 1), b \in 1..(Len(Days) - 1)}

\* The Report Source resolves a date of the query by its own clock.
ResolveDate(text, now) ==
    IF text = Yesterday THEN now - 1
    ELSE CHOOSE d \in 1..Len(Days) : strftime(Days[d]) = text

\* The days for which the Report Source may return rows to a query.
QueryDays(start, end, now) ==
    SUBSET {d \in 1..Len(Days) :
               ResolveDate(start, now) <= d /\ d <= ResolveDate(end, now)}

\* ga4-campaign/ga4_extractor.py extract_dimension: the row's own date value.
row_date(row, start_date) ==
    IF <<"d", "a", "t", "e">> \in DOMAIN row THEN row[<<"d", "a", "t", "e">>]
    ELSE start_date

\* report_manager.py _prepare_rows_for_bigquery: the date re-punctuated.
report_date(date_str) ==
    SubSeq(date_str, 1, 4) \o <<"-">> \o SubSeq(date_str, 5, 6) \o <<"-">>
        \o SubSeq(date_str, 7, Len(date_str))

Admit(r) ==
    /\ req' = r
    /\ UNCHANGED <<connector, sink, hist, batch, clock, unit, gcp_connection, threads, dag, pager>>

Rejected(route, io) ==
    [NoReq EXCEPT !.route = route, !.pc = "done", !.code = 400,
                  !.rejected = TRUE, !.io = io]

Failed(route, io) ==
    [NoReq EXCEPT !.route = route, !.pc = "done", !.code = 500, !.io = io]

\* Midnight passes.
Tick ==
    /\ clock < Len(Days)
    /\ clock' = clock + 1
    /\ UNCHANGED <<connector, sink, hist, batch, req, unit, gcp_connection, threads, dag, pager>>

\* ga4_campaign, POST /extract: extract_all and steps 1-3 of run_full_extraction.
PostExtract ==
    /\ connector = "ga4_campaign" /\ req.pc \in {"idle", "done"}
    /\ \E property_id \in BOOLEAN, connect \in BOOLEAN, given \in CallerRanges :
          Admit(IF ~property_id THEN Rejected("/extract", <<>>)
                ELSE IF ~connect THEN Failed("/extract", <<"connect">>)
                ELSE LET range == IF given = <<>> THEN get_date_range(clock)
                                  ELSE given
                     IN  [NoReq EXCEPT !.route = "/extract", !.pc = "keys",
                              !.io = <<"connect", "sink">>,
                              !.given = (given # <<>>),
                              !.start = range[1], !.end = range[2]])

\* ga4_campaign: one report key of extract_all_dimensions; after the last key
\* the loads run and the response is sent.
PostExtractKey ==
    /\ connector = "ga4_campaign" /\ req.pc = "keys"
    /\ \E ds \in QueryDays(req.start, req.end, clock) :
          LET rows == {<<"d", "a", "t", "e">> :> DateDimension(Days[d]) : d \in ds}
              last == req.i = Len(BatchKeys)
          IN  Admit([req EXCEPT
                  !.parts = Append(@, {row_date(row, req.start) : row \in rows}),
                  !.io = @ \o (IF last THEN <<"source", "sink">> ELSE <<"source">>),
                  !.i = IF last THEN 1 ELSE @ + 1,
                  !.pc = IF last THEN "done" ELSE "keys",
                  !.code = IF last THEN 200 ELSE 0])

\* ga4_manager, POST /report/all: run_all_reports up to the ReportManager.
PostReportAll ==
    /\ connector = "ga4_manager" /\ req.pc \in {"idle", "done"}
    /\ \E is_json \in BOOLEAN, property_id \in BOOLEAN, credentials \in BOOLEAN,
          given \in CallerRanges :
          Admit(IF ~is_json \/ ~property_id THEN Rejected("/report/all", <<>>)
                ELSE IF ~credentials THEN Failed("/report/all", <<"credentials">>)
                ELSE [NoReq EXCEPT !.route = "/report/all", !.pc = "keys",
                          !.io = <<"credentials">>,
                          !.given = (given # <<>>),
                          !.start = IF given = <<>> THEN Yesterday ELSE given[1],
                          !.end = IF given = <<>> THEN Yesterday ELSE given[2]])

\* ga4_manager: one report of ReportManager.run_all_dimension_reports, fetched
\* with the range as received and loaded at once.
PostReportAllKey ==
    /\ connector = "ga4_manager" /\ req.pc = "keys"
    /\ \E ds \in QueryDays(req.start, req.end, clock) :
          LET rows == {<<"d", "a", "t", "e">> :> DateDimension(Days[d]) : d \in ds}
              last == req.i = Len(BatchKeys)
          IN  Admit([req EXCEPT
                  !.parts = Append(@, {report_date(row[<<"d", "a", "t", "e">>]) : row \in rows}),
                  !.io = @ \o <<"source", "sink">>,
                  !.i = IF last THEN 1 ELSE @ + 1,
                  !.pc = IF last THEN "done" ELSE "keys",
                  !.code = IF last THEN 200 ELSE 0])

\* ga4_manager, POST /report/dimension/<table_name>.
PostReportDimension ==
    /\ connector = "ga4_manager" /\ req.pc \in {"idle", "done"}
    /\ \E is_json \in BOOLEAN, property_id \in BOOLEAN, credentials \in BOOLEAN,
          known \in BOOLEAN :
          Admit(IF ~is_json \/ ~property_id
                THEN Rejected("/report/dimension", <<>>)
                ELSE IF ~credentials
                THEN Failed("/report/dimension", <<"credentials">>)
                ELSE IF ~known
                THEN [NoReq EXCEPT !.route = "/report/dimension", !.pc = "done",
                          !.code = 400, !.io = <<"credentials">>]
                ELSE [NoReq EXCEPT !.route = "/report/dimension", !.pc = "done",
                          !.code = 200,
                          !.io = <<"credentials", "source", "sink">>])

\* ga4_manager, POST /run-report: the legacy custom report.
PostRunReport ==
    /\ connector = "ga4_manager" /\ req.pc \in {"idle", "done"}
    /\ \E is_json \in BOOLEAN, property_id \in BOOLEAN, bigquery_table \in BOOLEAN,
          credentials \in BOOLEAN, dimensions \in BOOLEAN, metrics \in BOOLEAN :
          Admit(IF ~is_json \/ ~(property_id /\ bigquery_table)
                THEN Rejected("/run-report", <<>>)
                ELSE IF ~credentials
                THEN Failed("/run-report", <<"credentials">>)
                ELSE IF ~dimensions /\ ~metrics
                THEN Rejected("/run-report", <<"credentials">>)
                ELSE [NoReq EXCEPT !.route = "/run-report", !.pc = "done",
                          !.code = 200,
                          !.io = <<"credentials", "source", "sink">>])

NextAdmission ==
    \/ Tick \/ PostExtract \/ PostExtractKey
    \/ PostReportAll \/ PostReportAllKey \/ PostReportDimension \/ PostRunReport

SpecAdmission == Init /\ [][NextAdmission]_vars

\* C13: when the caller gave no date range, all rows loaded by one finished
\* batch carry one and the same partition date.
C13_OneDatePerBatch ==
    (req.pc = "done" /\ req.code = 200 /\ ~req.given
        /\ req.route \in {"/extract", "/report/all"})
        => Cardinality(UNION Range(req.parts)) <= 1

\* C14: a request rejected for a missing caller input has made no network call.
C14_RejectedBeforeIO ==
    (req.pc = "done" /\ req.rejected) => req.io = <<>>


\* ========================================================= transformations
\* The functions that shape names, values and rows, each applied to an input
\* drawn from a bounded set: unit.in is the input, unit.out the result.

LowerChars == <<"a", "b", "c", "d", "e", "f", "g", "h", "i", "j", "k", "l", "m",
                "n", "o", "p", "q", "r", "s", "t", "u", "v", "w", "x", "y", "z">>
UpperChars == <<"A", "B", "C", "D", "E", "F", "G", "H", "I", "J", "K", "L", "M",
                "N", "O", "P", "Q", "R", "S", "T", "U", "V", "W", "X", "Y", "Z">>

IsLower(ch) == \E k \in DOMAIN LowerChars : LowerChars[k] = ch
IsUpper(ch) == \E k \in DOMAIN UpperChars : UpperChars[k] = ch
IsDigit(ch) == \E k \in DOMAIN DigitChars : DigitChars[k] = ch

\* str.lower() and str.upper()
lower(s) ==
    [i \in 1..Len(s) |->
        IF IsUpper(s[i])
        THEN LowerChars[CHOOSE k \in DOMAIN UpperChars : UpperChars[k] = s[i]]
        ELSE s[i]]
upper(s) ==
    [i \in 1..Len(s) |->
        IF IsLower(s[i])
        THEN UpperChars[CHOOSE k \in DOMAIN LowerChars : LowerChars[k] = s[i]]
        ELSE s[i]]

\* The end of the run of lower-case letters that starts at position i.
RECURSIVE LowerRunEnd(_, _)
LowerRunEnd(s, i) ==
    IF i < Len(s) /\ IsLower(s[i + 1]) THEN LowerRunEnd(s, i + 1) ELSE i

\* re.sub('(.)([A-Z][a-z]+)', r'\1_\2', name), scanning from position i:
\* matches are taken leftmost first and do not overlap.
RECURSIVE SubWord(_, _)
SubWord(s, i) ==
    IF i > Len(s) THEN <<>>
    ELSE IF i + 2 <= Len(s) /\ IsUpper(s[i + 1]) /\ IsLower(s[i + 2])
    THEN LET j == LowerRunEnd(s, i + 2)
         IN  <<s[i], "_">> \o SubSeq(s, i + 1, j) \o SubWord(s, j + 1)
    ELSE <<s[i]>> \o SubWord(s, i + 1)

\* re.sub('([a-z0-9])([A-Z])', r'\1_\2', name), scanning from position i.
RECURSIVE SubHump(_, _)
SubHump(s, i) ==
    IF i > Len(s) THEN <<>>
    ELSE IF i + 1 <= Len(s) /\ (IsLower(s[i]) \/ IsDigit(s[i])) /\ IsUpper(s[i + 1])
    THEN <<s[i], "_", s[i + 1]>> \o SubHump(s, i + 2)
    ELSE <<s[i]>> \o SubHump(s, i + 1)

camel_to_snake_NoLower(name) == SubHump(SubWord(name, 1), 1)

camel_to_snake(name) == lower(SubHump(SubWord(name, 1), 1))

\* -------------------------------------------------------- metric values
MaxText == 3        \* length of the metric texts tried

\* A metric value as the Report Source sends it: text over these characters,
\* and a few longer values ("12.5", "N/A", "1.2.5", "-12.5").
MetricChars == {"1", "2", "5", ".", "-", "N"}

RECURSIVE Texts(_)
Texts(n) ==
    IF n = 0 THEN {<<>>}
    ELSE Texts(n - 1) \cup {Append(t, ch) : t \in {u \in Texts(n - 1) : Len(u) = n - 1},
                                            ch \in MetricChars}

MetricTexts ==
    Texts(MaxText) \cup {<<"1", "2", ".", "5">>, <<"N", "/", "A">>,
                         <<"1", ".", "2", ".", "5">>, <<"-", "1", "2", ".", "5">>}

\* Python's None.
None == <<"None">>

HasDot(value) == \E i \in 1..Len(value) : value[i] = "."

Unsigned(value) ==
    IF value # <<>> /\ value[1] = "-" THEN Tail(value) ELSE value

ValueOf(ch) == (CHOOSE k \in DOMAIN DigitChars : DigitChars[k] = ch) - 1

\* The number written by the digits of a text, other characters skipped.
RECURSIVE Digits(_)
Digits(t) ==
    IF t = <<>> THEN 0
    ELSE IF IsDigit(t[Len(t)])
    THEN 10 * Digits(SubSeq(t, 1, Len(t) - 1)) + ValueOf(t[Len(t)])
    ELSE Digits(SubSeq(t, 1, Len(t) - 1))

Sign(value) == IF value # <<>> /\ value[1] = "-" THEN -1 ELSE 1

ValueError == [type |-> "ValueError"]

\* int(str): an optional sign and one or more digits, else ValueError.
int(value) ==
    LET u == Unsigned(value)
    IN  IF u # <<>> /\ \A i \in 1..Len(u) : IsDigit(u[i])
        THEN [type |-> "int", value |-> Sign(value) * Digits(u)]
        ELSE ValueError

\* float(str): an optional sign, digits with at most one point and at least
\* one digit, else ValueError.  The value is sign * num / 10^scale.
float(value) ==
    LET u == Unsigned(value)
        points == {i \in 1..Len(u) : u[i] = "."}
    IN  IF /\ \A i \in 1..Len(u) : IsDigit(u[i]) \/ u[i] = "."
           /\ \E i \in 1..Len(u) : IsDigit(u[i])
           /\ Cardinality(points) <= 1
        THEN [type |-> "float", sign |-> Sign(value), num |-> Digits(u),
              scale |-> IF points = {} THEN 0
                        ELSE Len(u) - (CHOOSE i \in points : TRUE)]
        ELSE ValueError

Raw(value) == [type |-> "str", value |-> value]

\* run_report without its except clause.
run_report_metric_NoFallback(value) ==
    IF HasDot(value) THEN float(value) ELSE int(value)

\* ga4_extractor.py run_report: the value stored for one metric.
run_report_metric(value) ==
    LET parsed == IF HasDot(value) THEN float(value) ELSE int(value)
    IN  IF parsed = ValueError THEN Raw(value) ELSE parsed

\* report_manager.py _prepare_rows_for_bigquery: the value stored for one metric.
prepare_rows_metric(value) ==
    IF value # None
    THEN LET parsed == IF HasDot(value) THEN float(value) ELSE int(value)
         IN  IF parsed = ValueError THEN Raw(value) ELSE parsed
    ELSE [type |-> "None"]

\* ---------------------------------------------- ga4-campaign: schemas.py
\* The names of the base columns every table starts with.
get_base_fields(table_name) ==
    << <<"P", "K", "_">> \o table_name,
       <<"G", "A", "4", "_", "S", "E", "S", "S", "I", "O", "N", "_", "K", "E", "Y">>,
       <<"P", "R", "O", "P", "E", "R", "T", "Y", "_", "I", "D">>,
       <<"D", "A", "T", "E">>,
       <<"L", "A", "S", "T", "_", "U", "P", "D", "A", "T", "E">> >>

TableSchema(table_name, dimensions, metrics, fields) ==
    [table_name |-> table_name, dimensions |-> dimensions, metrics |-> metrics,
     schema_fields |-> get_base_fields(table_name) \o fields]

\* The catalog: vendor dimension and metric names and the column names declared
\* for each report.
DIMENSION_SCHEMAS ==
       "CAMPAIGN" :> TableSchema(
         <<"G","A","4","_","D","I","M","_","C","A","M","P","A","I","G","N">>,
         <<<<"d","a","t","e">>,
           <<"c","a","m","p","a","i","g","n","I","d">>,
           <<"c","a","m","p","a","i","g","n","N","a","m","e">>,
           <<"s","e","s","s","i","o","n","C","a","m","p","a","i","g","n","I","d">>,
           <<"s","e","s","s","i","o","n","C","a","m","p","a","i","g","n","N","a","m","e">>,
           <<"f","i","r","s","t","U","s","e","r","C","a","m","p","a","i","g","n","I","d">>,
           <<"f","i","r","s","t","U","s","e","r","C","a","m","p","a","i","g","n","N","a","m","e">>,
           <<"s","e","s","s","i","o","n","M","a","n","u","a","l","A","d","C","o","n","t","e","n","t">>,
           <<"s","e","s","s","i","o","n","M","a","n","u","a","l","T","e","r","m">>,
           <<"g","o","o","g","l","e","A","d","s","A","d","G","r","o","u","p","I","d">>,
           <<"g","o","o","g","l","e","A","d","s","A","d","G","r","o","u","p","N","a","m","e">>,
           <<"g","o","o","g","l","e","A","d","s","A","d","N","e","t","w","o","r","k","T","y","p","e">>>>,
         <<<<"s","e","s","s","i","o","n","s">>,
           <<"t","o","t","a","l","U","s","e","r","s">>,
           <<"n","e","w","U","s","e","r","s">>,
           <<"a","c","t","i","v","e","U","s","e","r","s">>,
           <<"e","n","g","a","g","e","d","S","e","s","s","i","o","n","s">>,
           <<"e","n","g","a","g","e","m","e","n","t","R","a","t","e">>,
           <<"e","v","e","n","t","C","o","u","n","t">>,
           <<"c","o","n","v","e","r","s","i","o","n","s">>,
           <<"t","o","t","a","l","R","e","v","e","n","u","e">>>>,
         <<<<"C","A","M","P","A","I","G","N","_","I","D">>,
           <<"C","A","M","P","A","I","G","N","_","N","A","M","E">>,
           <<"S","E","S","S","I","O","N","_","C","A","M","P","A","I","G","N","_","I","D">>,
           <<"S","E","S","S","I","O","N","_","C","A","M","P","A","I","G","N","_","N","A","M","E">>,
           <<"F","I","R","S","T","_","U","S","E","R","_","C","A","M","P","A","I","G","N","_","I","D">>,
           <<"F","I","R","S","T","_","U","S","E","R","_","C","A","M","P","A","I","G","N","_","N","A","M","E">>,
           <<"S","E","S","S","I","O","N","_","M","A","N","U","A","L","_","A","D","_","C","O","N","T","E","N","T">>,
           <<"S","E","S","S","I","O","N","_","M","A","N","U","A","L","_","T","E","R","M">>,
           <<"G","O","O","G","L","E","_","A","D","S","_","A","D","_","G","R","O","U","P","_","I","D">>,
           <<"G","O","O","G","L","E","_","A","D","S","_","A","D","_","G","R","O","U","P","_","N","A","M","E">>,
           <<"G","O","O","G","L","E","_","A","D","S","_","A","D","_","N","E","T","W","O","R","K","_","T","Y","P","E">>,
           <<"S","E","S","S","I","O","N","S">>,
           <<"T","O","T","A","L","_","U","S","E","R","S">>,
           <<"N","E","W","_","U","S","E","R","S">>,
           <<"A","C","T","I","V","E","_","U","S","E","R","S">>,
           <<"E","N","G","A","G","E","D","_","S","E","S","S","I","O","N","S">>,
           <<"E","N","G","A","G","E","M","E","N","T","_","R","A","T","E">>,
           <<"E","V","E","N","T","_","C","O","U","N","T">>,
           <<"C","O","N","V","E","R","S","I","O","N","S">>,
           <<"T","O","T","A","L","_","R","E","V","E","N","U","E">>>>)
    @@ "SOURCE_MEDIUM" :> TableSchema(
         <<"G","A","4","_","D","I","M","_","S","O","U","R","C","E","_","M","E","D","I","U","M">>,
         <<<<"d","a","t","e">>,
           <<"s","e","s","s","i","o","n","S","o","u","r","c","e">>,
           <<"s","e","s","s","i","o","n","M","e","d","i","u","m">>,
           <<"s","e","s","s","i","o","n","S","o","u","r","c","e","M","e","d","i","u","m">>,
           <<"s","e","s","s","i","o","n","S","o","u","r","c","e","P","l","a","t","f","o","r","m">>,
           <<"f","i","r","s","t","U","s","e","r","S","o","u","r","c","e">>,
           <<"f","i","r","s","t","U","s","e","r","M","e","d","i","u","m">>,
           <<"f","i","r","s","t","U","s","e","r","S","o","u","r","c","e","M","e","d","i","u","m">>,
           <<"f","i","r","s","t","U","s","e","r","S","o","u","r","c","e","P","l","a","t","f","o","r","m">>>>,
         <<<<"s","e","s","s","i","o","n","s">>,
           <<"t","o","t","a","l","U","s","e","r","s">>,
           <<"n","e","w","U","s","e","r","s">>,
           <<"a","c","t","i","v","e","U","s","e","r","s">>,
           <<"e","n","g","a","g","e","d","S","e","s","s","i","o","n","s">>,
           <<"e","n","g","a","g","e","m","e","n","t","R","a","t","e">>,
           <<"b","o","u","n","c","e","R","a","t","e">>,
           <<"a","v","e","r","a","g","e","S","e","s","s","i","o","n","D","u","r","a","t","i","o","n">>,
           <<"s","c","r","e","e","n","P","a","g","e","V","i","e","w","s">>,
           <<"c","o","n","v","e","r","s","i","o","n","s">>>>,
         <<<<"S","E","S","S","I","O","N","_","S","O","U","R","C","E">>,
           <<"S","E","S","S","I","O","N","_","M","E","D","I","U","M">>,
           <<"S","E","S","S","I","O","N","_","S","O","U","R","C","E","_","M","E","D","I","U","M">>,
           <<"S","E","S","S","I","O","N","_","S","O","U","R","C","E","_","P","L","A","T","F","O","R","M">>,
           <<"F","I","R","S","T","_","U","S","E","R","_","S","O","U","R","C","E">>,
           <<"F","I","R","S","T","_","U","S","E","R","_","M","E","D","I","U","M">>,
           <<"F","I","R","S","T","_","U","S","E","R","_","S","O","U","R","C","E","_","M","E","D","I","U","M">>,
           <<"F","I","R","S","T","_","U","S","E","R","_","S","O","U","R","C","E","_","P","L","A","T","F","O","R","M">>,
           <<"S","E","S","S","I","O","N","S">>,
           <<"T","O","T","A","L","_","U","S","E","R","S">>,
           <<"N","E","W","_","U","S","E","R","S">>,
           <<"A","C","T","I","V","E","_","U","S","E","R","S">>,
           <<"E","N","G","A","G","E","D","_","S","E","S","S","I","O","N","S">>,
           <<"E","N","G","A","G","E","M","E","N","T","_","R","A","T","E">>,
           <<"B","O","U","N","C","E","_","R","A","T","E">>,
           <<"A","V","E","R","A","G","E","_","S","E","S","S","I","O","N","_","D","U","R","A","T","I","O","N">>,
           <<"S","C","R","E","E","N","_","P","A","G","E","_","V","I","E","W","S">>,
           <<"C","O","N","V","E","R","S","I","O","N","S">>>>)
    @@ "CHANNEL" :> TableSchema(
         <<"G","A","4","_","D","I","M","_","C","H","A","N","N","E","L">>,
         <<<<"d","a","t","e">>,
           <<"s","e","s","s","i","o","n","D","e","f","a","u","l","t","C","h","a","n","n","e","l","G","r","o","u","p">>,
           <<"f","i","r","s","t","U","s","e","r","D","e","f","a","u","l","t","C","h","a","n","n","e","l","G","r","o","u","p">>,
           <<"s","e","s","s","i","o","n","P","r","i","m","a","r","y","C","h","a","n","n","e","l","G","r","o","u","p">>,
           <<"f","i","r","s","t","U","s","e","r","P","r","i","m","a","r","y","C","h","a","n","n","e","l","G","r","o","u","p">>>>,
         <<<<"s","e","s","s","i","o","n","s">>,
           <<"t","o","t","a","l","U","s","e","r","s">>,
           <<"n","e","w","U","s","e","r","s">>,
           <<"a","c","t","i","v","e","U","s","e","r","s">>,
           <<"e","n","g","a","g","e","d","S","e","s","s","i","o","n","s">>,
           <<"e","n","g","a","g","e","m","e","n","t","R","a","t","e">>,
           <<"b","o","u","n","c","e","R","a","t","e">>,
           <<"a","v","e","r","a","g","e","S","e","s","s","i","o","n","D","u","r","a","t","i","o","n">>,
           <<"c","o","n","v","e","r","s","i","o","n","s">>,
           <<"t","o","t","a","l","R","e","v","e","n","u","e">>>>,
         <<<<"S","E","S","S","I","O","N","_","D","E","F","A","U","L","T","_","C","H","A","N","N","E","L","_","G","R","O","U","P">>,
           <<"F","I","R","S","T","_","U","S","E","R","_","D","E","F","A","U","L","T","_","C","H","A","N","N","E","L","_","G","R","O","U","P">>,
           <<"S","E","S","S","I","O","N","_","P","R","I","M","A","R","Y","_","C","H","A","N","N","E","L","_","G","R","O","U","P">>,
           <<"F","I","R","S","T","_","U","S","E","R","_","P","R","I","M","A","R","Y","_","C","H","A","N","N","E","L","_","G","R","O","U","P">>,
           <<"S","E","S","S","I","O","N","S">>,
           <<"T","O","T","A","L","_","U","S","E","R","S">>,
           <<"N","E","W","_","U","S","E","R","S">>,
           <<"A","C","T","I","V","E","_","U","S","E","R","S">>,
           <<"E","N","G","A","G","E","D","_","S","E","S","S","I","O","N","S">>,
           <<"E","N","G","A","G","E","M","E","N","T","_","R","A","T","E">>,
           <<"B","O","U","N","C","E","_","R","A","T","E">>,
           <<"A","V","E","R","A","G","E","_","S","E","S","S","I","O","N","_","D","U","R","A","T","I","O","N">>,
           <<"C","O","N","V","E","R","S","I","O","N","S">>,
           <<"T","O","T","A","L","_","R","E","V","E","N","U","E">>>>)
    @@ "GEOGRAPHIC" :> TableSchema(
         <<"G","A","4","_","D","I","M","_","G","E","O","G","R","A","P","H","I","C">>,
         <<<<"d","a","t","e">>,
           <<"c","o","u","n","t","r","y">>,
           <<"c","o","u","n","t","r","y","I","d">>,
           <<"r","e","g","i","o","n">>,
           <<"c","i","t","y">>,
           <<"c","i","t","y","I","d">>,
           <<"c","o","n","t","i","n","e","n","t">>,
           <<"c","o","n","t","i","n","e","n","t","I","d">>,
           <<"s","u","b","C","o","n","t","i","n","e","n","t">>>>,
         <<<<"s","e","s","s","i","o","n","s">>,
           <<"t","o","t","a","l","U","s","e","r","s">>,
           <<"n","e","w","U","s","e","r","s">>,
           <<"a","c","t","i","v","e","U","s","e","r","s">>,
           <<"e","n","g","a","g","e","d","S","e","s","s","i","o","n","s">>,
           <<"e","n","g","a","g","e","m","e","n","t","R","a","t","e">>,
           <<"s","c","r","e","e","n","P","a","g","e","V","i","e","w","s">>>>,
         <<<<"C","O","U","N","T","R","Y">>,
           <<"C","O","U","N","T","R","Y","_","I","D">>,
           <<"R","E","G","I","O","N">>,
           <<"C","I","T","Y">>,
           <<"C","I","T","Y","_","I","D">>,
           <<"C","O","N","T","I","N","E","N","T">>,
           <<"C","O","N","T","I","N","E","N","T","_","I","D">>,
           <<"S","U","B","_","C","O","N","T","I","N","E","N","T">>,
           <<"S","E","S","S","I","O","N","S">>,
           <<"T","O","T","A","L","_","U","S","E","R","S">>,
           <<"N","E","W","_","U","S","E","R","S">>,
           <<"A","C","T","I","V","E","_","U","S","E","R","S">>,
           <<"E","N","G","A","G","E","D","_","S","E","S","S","I","O","N","S">>,
           <<"E","N","G","A","G","E","M","E","N","T","_","R","A","T","E">>,
           <<"S","C","R","E","E","N","_","P","A","G","E","_","V","I","E","W","S">>>>)
    @@ "DEVICE" :> TableSchema(
         <<"G","A","4","_","D","I","M","_","D","E","V","I","C","E">>,
         <<<<"d","a","t","e">>,
           <<"d","e","v","i","c","e","C","a","t","e","g","o","r","y">>,
           <<"d","e","v","i","c","e","M","o","d","e","l">>,
           <<"m","o","b","i","l","e","D","e","v","i","c","e","B","r","a","n","d","i","n","g">>,
           <<"m","o","b","i","l","e","D","e","v","i","c","e","M","o","d","e","l">>,
           <<"m","o","b","i","l","e","D","e","v","i","c","e","M","a","r","k","e","t","i","n","g","N","a","m","e">>,
           <<"o","p","e","r","a","t","i","n","g","S","y","s","t","e","m">>,
           <<"o","p","e","r","a","t","i","n","g","S","y","s","t","e","m","V","e","r","s","i","o","n">>,
           <<"o","p","e","r","a","t","i","n","g","S","y","s","t","e","m","W","i","t","h","V","e","r","s","i","o","n">>,
           <<"b","r","o","w","s","e","r">>,
           <<"b","r","o","w","s","e","r","V","e","r","s","i","o","n">>,
           <<"p","l","a","t","f","o","r","m">>,
           <<"p","l","a","t","f","o","r","m","D","e","v","i","c","e","C","a","t","e","g","o","r","y">>,
           <<"s","c","r","e","e","n","R","e","s","o","l","u","t","i","o","n">>>>,
         <<<<"s","e","s","s","i","o","n","s">>,
           <<"t","o","t","a","l","U","s","e","r","s">>,
           <<"n","e","w","U","s","e","r","s">>,
           <<"a","c","t","i","v","e","U","s","e","r","s">>,
           <<"e","n","g","a","g","e","d","S","e","s","s","i","o","n","s">>,
           <<"e","n","g","a","g","e","m","e","n","t","R","a","t","e">>,
           <<"s","c","r","e","e","n","P","a","g","e","V","i","e","w","s">>>>,
         <<<<"D","E","V","I","C","E","_","C","A","T","E","G","O","R","Y">>,
           <<"D","E","V","I","C","E","_","M","O","D","E","L">>,
           <<"M","O","B","I","L","E","_","D","E","V","I","C","E","_","B","R","A","N","D","I","N","G">>,
           <<"M","O","B","I","L","E","_","D","E","V","I","C","E","_","M","O","D","E","L">>,
           <<"M","O","B","I","L","E","_","D","E","V","I","C","E","_","M","A","R","K","E","T","I","N","G","_","N","A","M","E">>,
           <<"O","P","E","R","A","T","I","N","G","_","S","Y","S","T","E","M">>,
           <<"O","P","E","R","A","T","I","N","G","_","S","Y","S","T","E","M","_","V","E","R","S","I","O","N">>,
           <<"O","P","E","R","A","T","I","N","G","_","S","Y","S","T","E","M","_","W","I","T","H","_","V","E","R","S","I","O","N">>,
           <<"B","R","O","W","S","E","R">>,
           <<"B","R","O","W","S","E","R","_","V","E","R","S","I","O","N">>,
           <<"P","L","A","T","F","O","R","M">>,
           <<"P","L","A","T","F","O","R","M","_","D","E","V","I","C","E","_","C","A","T","E","G","O","R","Y">>,
           <<"S","C","R","E","E","N","_","R","E","S","O","L","U","T","I","O","N">>,
           <<"S","E","S","S","I","O","N","S">>,
           <<"T","O","T","A","L","_","U","S","E","R","S">>,
           <<"N","E","W","_","U","S","E","R","S">>,
           <<"A","C","T","I","V","E","_","U","S","E","R","S">>,
           <<"E","N","G","A","G","E","D","_","S","E","S","S","I","O","N","S">>,
           <<"E","N","G","A","G","E","M","E","N","T","_","R","A","T","E">>,
           <<"S","C","R","E","E","N","_","P","A","G","E","_","V","I","E","W","S">>>>)
    @@ "PAGE" :> TableSchema(
         <<"G","A","4","_","D","I","M","_","P","A","G","E">>,
         <<<<"d","a","t","e">>,
           <<"p","a","g","e","P","a","t","h">>,
           <<"p","a","g","e","P","a","t","h","P","l","u","s","Q","u","e","r","y","S","t","r","i","n","g">>,
           <<"p","a","g","e","T","i","t","l","e">>,
           <<"l","a","n","d","i","n","g","P","a","g","e">>,
           <<"l","a","n","d","i","n","g","P","a","g","e","P","l","u","s","Q","u","e","r","y","S","t","r","i","n","g">>,
           <<"e","x","i","t","P","a","g","e">>,
           <<"h","o","s","t","n","a","m","e">>,
           <<"p","a","g","e","R","e","f","e","r","r","e","r">>,
           <<"c","o","n","t","e","n","t","G","r","o","u","p">>,
           <<"c","o","n","t","e","n","t","I","d">>,
           <<"c","o","n","t","e","n","t","T","y","p","e">>>>,
         <<<<"s","c","r","e","e","n","P","a","g","e","V","i","e","w","s">>,
           <<"a","c","t","i","v","e","U","s","e","r","s">>,
           <<"s","e","s","s","i","o","n","s">>,
           <<"e","n","g","a","g","e","d","S","e","s","s","i","o","n","s">>,
           <<"a","v","e","r","a","g","e","S","e","s","s","i","o","n","D","u","r","a","t","i","o","n">>,
           <<"b","o","u","n","c","e","R","a","t","e">>,
           <<"e","n","t","r","a","n","c","e","s">>,
           <<"e","x","i","t","s">>>>,
         <<<<"P","A","G","E","_","P","A","T","H">>,
           <<"P","A","G","E","_","P","A","T","H","_","P","L","U","S","_","Q","U","E","R","Y","_","S","T","R","I","N","G">>,
           <<"P","A","G","E","_","T","I","T","L","E">>,
           <<"L","A","N","D","I","N","G","_","P","A","G","E">>,
           <<"L","A","N","D","I","N","G","_","P","A","G","E","_","P","L","U","S","_","Q","U","E","R","Y","_","S","T","R","I","N","G">>,
           <<"E","X","I","T","_","P","A","G","E">>,
           <<"H","O","S","T","N","A","M","E">>,
           <<"P","A","G","E","_","R","E","F","E","R","R","E","R">>,
           <<"C","O","N","T","E","N","T","_","G","R","O","U","P">>,
           <<"C","O","N","T","E","N","T","_","I","D">>,
           <<"C","O","N","T","E","N","T","_","T","Y","P","E">>,
           <<"S","C","R","E","E","N","_","P","A","G","E","_","V","I","E","W","S">>,
           <<"A","C","T","I","V","E","_","U","S","E","R","S">>,
           <<"S","E","S","S","I","O","N","S">>,
           <<"E","N","G","A","G","E","D","_","S","E","S","S","I","O","N","S">>,
           <<"A","V","E","R","A","G","E","_","S","E","S","S","I","O","N","_","D","U","R","A","T","I","O","N">>,
           <<"B","O","U","N","C","E","_","R","A","T","E">>,
           <<"E","N","T","R","A","N","C","E","S">>,
           <<"E","X","I","T","S">>>>)
    @@ "EVENT" :> TableSchema(
         <<"G","A","4","_","D","I","M","_","E","V","E","N","T">>,
         <<<<"d","a","t","e">>,
           <<"e","v","e","n","t","N","a","m","e">>,
           <<"i","s","C","o","n","v","e","r","s","i","o","n","E","v","e","n","t">>>>,
         <<<<"e","v","e","n","t","C","o","u","n","t">>,
           <<"e","v","e","n","t","C","o","u","n","t","P","e","r","U","s","e","r">>,
           <<"e","v","e","n","t","s","P","e","r","S","e","s","s","i","o","n">>,
           <<"a","c","t","i","v","e","U","s","e","r","s">>,
           <<"t","o","t","a","l","U","s","e","r","s">>,
           <<"c","o","n","v","e","r","s","i","o","n","s">>,
           <<"e","v","e","n","t","V","a","l","u","e">>,
           <<"t","o","t","a","l","R","e","v","e","n","u","e">>>>,
         <<<<"E","V","E","N","T","_","N","A","M","E">>,
           <<"I","S","_","C","O","N","V","E","R","S","I","O","N","_","E","V","E","N","T">>,
           <<"E","V","E","N","T","_","C","O","U","N","T">>,
           <<"E","V","E","N","T","_","C","O","U","N","T","_","P","E","R","_","U","S","E","R">>,
           <<"E","V","E","N","T","S","_","P","E","R","_","S","E","S","S","I","O","N">>,
           <<"A","C","T","I","V","E","_","U","S","E","R","S">>,
           <<"T","O","T","A","L","_","U","S","E","R","S">>,
           <<"C","O","N","V","E","R","S","I","O","N","S">>,
           <<"E","V","E","N","T","_","V","A","L","U","E">>,
           <<"T","O","T","A","L","_","R","E","V","E","N","U","E">>>>)
    @@ "USER" :> TableSchema(
         <<"G","A","4","_","D","I","M","_","U","S","E","R">>,
         <<<<"d","a","t","e">>,
           <<"n","e","w","V","s","R","e","t","u","r","n","i","n","g">>,
           <<"u","s","e","r","A","g","e","B","r","a","c","k","e","t">>,
           <<"u","s","e","r","G","e","n","d","e","r">>,
           <<"s","i","g","n","e","d","I","n","W","i","t","h","U","s","e","r","I","d">>,
           <<"f","i","r","s","t","S","e","s","s","i","o","n","D","a","t","e">>,
           <<"f","i","r","s","t","U","s","e","r","C","a","m","p","a","i","g","n","I","d">>,
           <<"f","i","r","s","t","U","s","e","r","C","a","m","p","a","i","g","n","N","a","m","e">>,
           <<"f","i","r","s","t","U","s","e","r","G","o","o","g","l","e","A","d","s","A","c","c","o","u","n","t","N","a","m","e">>,
           <<"f","i","r","s","t","U","s","e","r","G","o","o","g","l","e","A","d","s","A","d","G","r","o","u","p","I","d">>,
           <<"f","i","r","s","t","U","s","e","r","G","o","o","g","l","e","A","d","s","A","d","G","r","o","u","p","N","a","m","e">>>>,
         <<<<"a","c","t","i","v","e","U","s","e","r","s">>,
           <<"n","e","w","U","s","e","r","s">>,
           <<"t","o","t","a","l","U","s","e","r","s">>,
           <<"s","e","s","s","i","o","n","s">>,
           <<"s","e","s","s","i","o","n","s","P","e","r","U","s","e","r">>,
           <<"e","n","g","a","g","e","d","S","e","s","s","i","o","n","s">>,
           <<"e","n","g","a","g","e","m","e","n","t","R","a","t","e">>,
           <<"a","v","e","r","a","g","e","S","e","s","s","i","o","n","D","u","r","a","t","i","o","n">>,
           <<"s","c","r","e","e","n","P","a","g","e","V","i","e","w","s","P","e","r","S","e","s","s","i","o","n">>>>,
         <<<<"N","E","W","_","V","S","_","R","E","T","U","R","N","I","N","G">>,
           <<"U","S","E","R","_","A","G","E","_","B","R","A","C","K","E","T">>,
           <<"U","S","E","R","_","G","E","N","D","E","R">>,
           <<"S","I","G","N","E","D","_","I","N","_","W","I","T","H","_","U","S","E","R","_","I","D">>,
           <<"F","I","R","S","T","_","S","E","S","S","I","O","N","_","D","A","T","E">>,
           <<"F","I","R","S","T","_","U","S","E","R","_","C","A","M","P","A","I","G","N","_","I","D">>,
           <<"F","I","R","S","T","_","U","S","E","R","_","C","A","M","P","A","I","G","N","_","N","A","M","E">>,
           <<"F","I","R","S","T","_","U","S","E","R","_","G","O","O","G","L","E","_","A","D","S","_","A","C","C","O","U","N","T","_","N","A","M","E">>,
           <<"F","I","R","S","T","_","U","S","E","R","_","G","O","O","G","L","E","_","A","D","S","_","A","D","_","G","R","O","U","P","_","I","D">>,
           <<"F","I","R","S","T","_","U","S","E","R","_","G","O","O","G","L","E","_","A","D","S","_","A","D","_","G","R","O","U","P","_","N","A","M","E">>,
           <<"A","C","T","I","V","E","_","U","S","E","R","S">>,
           <<"N","E","W","_","U","S","E","R","S">>,
           <<"T","O","T","A","L","_","U","S","E","R","S">>,
           <<"S","E","S","S","I","O","N","S">>,
           <<"S","E","S","S","I","O","N","S","_","P","E","R","_","U","S","E","R">>,
           <<"E","N","G","A","G","E","D","_","S","E","S","S","I","O","N","S">>,
           <<"E","N","G","A","G","E","M","E","N","T","_","R","A","T","E">>,
           <<"A","V","E","R","A","G","E","_","S","E","S","S","I","O","N","_","D","U","R","A","T","I","O","N">>,
           <<"S","C","R","E","E","N","_","P","A","G","E","_","V","I","E","W","S","_","P","E","R","_","S","E","S","S","I","O","N">>>>)
    @@ "ECOMMERCE" :> TableSchema(
         <<"G","A","4","_","D","I","M","_","E","C","O","M","M","E","R","C","E">>,
         <<<<"d","a","t","e">>,
           <<"t","r","a","n","s","a","c","t","i","o","n","I","d">>,
           <<"i","t","e","m","I","d">>,
           <<"i","t","e","m","N","a","m","e">>,
           <<"i","t","e","m","B","r","a","n","d">>,
           <<"i","t","e","m","C","a","t","e","g","o","r","y">>,
           <<"i","t","e","m","C","a","t","e","g","o","r","y","2">>,
           <<"i","t","e","m","C","a","t","e","g","o","r","y","3">>,
           <<"i","t","e","m","C","a","t","e","g","o","r","y","4">>,
           <<"i","t","e","m","C","a","t","e","g","o","r","y","5">>,
           <<"i","t","e","m","L","i","s","t","I","d">>,
           <<"i","t","e","m","L","i","s","t","N","a","m","e">>,
           <<"i","t","e","m","L","i","s","t","P","o","s","i","t","i","o","n">>,
           <<"i","t","e","m","P","r","o","m","o","t","i","o","n","C","r","e","a","t","i","v","e","N","a","m","e">>,
           <<"i","t","e","m","P","r","o","m","o","t","i","o","n","I","d">>,
           <<"i","t","e","m","P","r","o","m","o","t","i","o","n","N","a","m","e">>,
           <<"o","r","d","e","r","C","o","u","p","o","n">>,
           <<"s","h","i","p","p","i","n","g","T","i","e","r">>>>,
         <<<<"e","c","o","m","m","e","r","c","e","P","u","r","c","h","a","s","e","s">>,
           <<"i","t","e","m","s","A","d","d","e","d","T","o","C","a","r","t">>,
           <<"i","t","e","m","s","C","h","e","c","k","e","d","O","u","t">>,
           <<"i","t","e","m","s","C","l","i","c","k","e","d","I","n","L","i","s","t">>,
           <<"i","t","e","m","s","C","l","i","c","k","e","d","I","n","P","r","o","m","o","t","i","o","n">>,
           <<"i","t","e","m","s","P","u","r","c","h","a","s","e","d">>,
           <<"i","t","e","m","s","V","i","e","w","e","d">>,
           <<"i","t","e","m","s","V","i","e","w","e","d","I","n","L","i","s","t">>,
           <<"i","t","e","m","s","V","i","e","w","e","d","I","n","P","r","o","m","o","t","i","o","n">>,
           <<"i","t","e","m","R","e","v","e","n","u","e">>,
           <<"p","u","r","c","h","a","s","e","R","e","v","e","n","u","e">>,
           <<"t","o","t","a","l","R","e","v","e","n","u","e">>,
           <<"t","r","a","n","s","a","c","t","i","o","n","s">>>>,
         <<<<"T","R","A","N","S","A","C","T","I","O","N","_","I","D">>,
           <<"I","T","E","M","_","I","D">>,
           <<"I","T","E","M","_","N","A","M","E">>,
           <<"I","T","E","M","_","B","R","A","N","D">>,
           <<"I","T","E","M","_","C","A","T","E","G","O","R","Y">>,
           <<"I","T","E","M","_","C","A","T","E","G","O","R","Y","_","2">>,
           <<"I","T","E","M","_","C","A","T","E","G","O","R","Y","_","3">>,
           <<"I","T","E","M","_","C","A","T","E","G","O","R","Y","_","4">>,
           <<"I","T","E","M","_","C","A","T","E","G","O","R","Y","_","5">>,
           <<"I","T","E","M","_","L","I","S","T","_","I","D">>,
           <<"I","T","E","M","_","L","I","S","T","_","N","A","M","E">>,
           <<"I","T","E","M","_","L","I","S","T","_","P","O","S","I","T","I","O","N">>,
           <<"I","T","E","M","_","P","R","O","M","O","T","I","O","N","_","C","R","E","A","T","I","V","E","_","N","A","M","E">>,
           <<"I","T","E","M","_","P","R","O","M","O","T","I","O","N","_","I","D">>,
           <<"I","T","E","M","_","P","R","O","M","O","T","I","O","N","_","N","A","M","E">>,
           <<"O","R","D","E","R","_","C","O","U","P","O","N">>,
           <<"S","H","I","P","P","I","N","G","_","T","I","E","R">>,
           <<"E","C","O","M","M","E","R","C","E","_","P","U","R","C","H","A","S","E","S">>,
           <<"I","T","E","M","S","_","A","D","D","E","D","_","T","O","_","C","A","R","T">>,
           <<"I","T","E","M","S","_","C","H","E","C","K","E","D","_","O","U","T">>,
           <<"I","T","E","M","S","_","C","L","I","C","K","E","D","_","I","N","_","L","I","S","T">>,
           <<"I","T","E","M","S","_","C","L","I","C","K","E","D","_","I","N","_","P","R","O","M","O","T","I","O","N">>,
           <<"I","T","E","M","S","_","P","U","R","C","H","A","S","E","D">>,
           <<"I","T","E","M","S","_","V","I","E","W","E","D">>,
           <<"I","T","E","M","S","_","V","I","E","W","E","D","_","I","N","_","L","I","S","T">>,
           <<"I","T","E","M","S","_","V","I","E","W","E","D","_","I","N","_","P","R","O","M","O","T","I","O","N">>,
           <<"I","T","E","M","_","R","E","V","E","N","U","E">>,
           <<"P","U","R","C","H","A","S","E","_","R","E","V","E","N","U","E">>,
           <<"T","O","T","A","L","_","R","E","V","E","N","U","E">>,
           <<"T","R","A","N","S","A","C","T","I","O","N","S">>>>)
    @@ "SESSION" :> TableSchema(
         <<"G","A","4","_","D","I","M","_","S","E","S","S","I","O","N">>,
         <<<<"d","a","t","e">>,
           <<"s","e","s","s","i","o","n","D","e","f","a","u","l","t","C","h","a","n","n","e","l","G","r","o","u","p">>,
           <<"s","e","s","s","i","o","n","S","o","u","r","c","e">>,
           <<"s","e","s","s","i","o","n","M","e","d","i","u","m">>,
           <<"s","e","s","s","i","o","n","C","a","m","p","a","i","g","n","N","a","m","e">>,
           <<"l","a","n","d","i","n","g","P","a","g","e">>,
           <<"d","e","v","i","c","e","C","a","t","e","g","o","r","y">>,
           <<"c","o","u","n","t","r","y">>>>,
         <<<<"s","e","s","s","i","o","n","s">>,
           <<"e","n","g","a","g","e","d","S","e","s","s","i","o","n","s">>,
           <<"a","v","e","r","a","g","e","S","e","s","s","i","o","n","D","u","r","a","t","i","o","n">>,
           <<"b","o","u","n","c","e","R","a","t","e">>,
           <<"e","n","g","a","g","e","m","e","n","t","R","a","t","e">>,
           <<"s","e","s","s","i","o","n","s","P","e","r","U","s","e","r">>,
           <<"s","c","r","e","e","n","P","a","g","e","V","i","e","w","s">>,
           <<"s","c","r","e","e","n","P","a","g","e","V","i","e","w","s","P","e","r","S","e","s","s","i","o","n">>,
           <<"a","c","t","i","v","e","U","s","e","r","s">>,
           <<"n","e","w","U","s","e","r","s">>,
           <<"t","o","t","a","l","U","s","e","r","s">>>>,
         <<<<"S","E","S","S","I","O","N","_","D","E","F","A","U","L","T","_","C","H","A","N","N","E","L","_","G","R","O","U","P">>,
           <<"S","E","S","S","I","O","N","_","S","O","U","R","C","E">>,
           <<"S","E","S","S","I","O","N","_","M","E","D","I","U","M">>,
           <<"S","E","S","S","I","O","N","_","C","A","M","P","A","I","G","N","_","N","A","M","E">>,
           <<"L","A","N","D","I","N","G","_","P","A","G","E">>,
           <<"D","E","V","I","C","E","_","C","A","T","E","G","O","R","Y">>,
           <<"C","O","U","N","T","R","Y">>,
           <<"S","E","S","S","I","O","N","S">>,
           <<"E","N","G","A","G","E","D","_","S","E","S","S","I","O","N","S">>,
           <<"A","V","E","R","A","G","E","_","S","E","S","S","I","O","N","_","D","U","R","A","T","I","O","N">>,
           <<"B","O","U","N","C","E","_","R","A","T","E">>,
           <<"E","N","G","A","G","E","M","E","N","T","_","R","A","T","E">>,
           <<"S","E","S","S","I","O","N","S","_","P","E","R","_","U","S","E","R">>,
           <<"S","C","R","E","E","N","_","P","A","G","E","_","V","I","E","W","S">>,
           <<"S","C","R","E","E","N","_","P","A","G","E","_","V","I","E","W","S","_","P","E","R","_","S","E","S","S","I","O","N">>,
           <<"A","C","T","I","V","E","_","U","S","E","R","S">>,
           <<"N","E","W","_","U","S","E","R","S">>,
           <<"T","O","T","A","L","_","U","S","E","R","S">>>>)
    @@ "GOOGLE_ADS" :> TableSchema(
         <<"G","A","4","_","D","I","M","_","G","O","O","G","L","E","_","A","D","S">>,
         <<<<"d","a","t","e">>,
           <<"s","e","s","s","i","o","n","G","o","o","g","l","e","A","d","s","A","c","c","o","u","n","t","N","a","m","e">>,
           <<"s","e","s","s","i","o","n","G","o","o","g","l","e","A","d","s","A","d","G","r","o","u","p","I","d">>,
           <<"s","e","s","s","i","o","n","G","o","o","g","l","e","A","d","s","A","d","G","r","o","u","p","N","a","m","e">>,
           <<"s","e","s","s","i","o","n","G","o","o","g","l","e","A","d","s","A","d","N","e","t","w","o","r","k","T","y","p","e">>,
           <<"s","e","s","s","i","o","n","G","o","o","g","l","e","A","d","s","C","a","m","p","a","i","g","n","I","d">>,
           <<"s","e","s","s","i","o","n","G","o","o","g","l","e","A","d","s","C","a","m","p","a","i","g","n","N","a","m","e">>,
           <<"s","e","s","s","i","o","n","G","o","o","g","l","e","A","d","s","C","a","m","p","a","i","g","n","T","y","p","e">>,
           <<"s","e","s","s","i","o","n","G","o","o","g","l","e","A","d","s","C","r","e","a","t","i","v","e","I","d">>,
           <<"s","e","s","s","i","o","n","G","o","o","g","l","e","A","d","s","K","e","y","w","o","r","d">>,
           <<"s","e","s","s","i","o","n","G","o","o","g","l","e","A","d","s","Q","u","e","r","y">>,
           <<"g","o","o","g","l","e","A","d","s","A","c","c","o","u","n","t","N","a","m","e">>,
           <<"g","o","o","g","l","e","A","d","s","A","d","G","r","o","u","p","I","d">>,
           <<"g","o","o","g","l","e","A","d","s","A","d","G","r","o","u","p","N","a","m","e">>,
           <<"g","o","o","g","l","e","A","d","s","C","a","m","p","a","i","g","n","I","d">>,
           <<"g","o","o","g","l","e","A","d","s","C","a","m","p","a","i","g","n","N","a","m","e">>>>,
         <<<<"s","e","s","s","i","o","n","s">>,
           <<"t","o","t","a","l","U","s","e","r","s">>,
           <<"n","e","w","U","s","e","r","s">>,
           <<"a","c","t","i","v","e","U","s","e","r","s">>,
           <<"e","n","g","a","g","e","d","S","e","s","s","i","o","n","s">>,
           <<"e","n","g","a","g","e","m","e","n","t","R","a","t","e">>,
           <<"c","o","n","v","e","r","s","i","o","n","s">>,
           <<"t","o","t","a","l","R","e","v","e","n","u","e">>,
           <<"a","d","v","e","r","t","i","s","e","r","A","d","C","l","i","c","k","s">>,
           <<"a","d","v","e","r","t","i","s","e","r","A","d","C","o","s","t">>,
           <<"a","d","v","e","r","t","i","s","e","r","A","d","C","o","s","t","P","e","r","C","l","i","c","k">>,
           <<"a","d","v","e","r","t","i","s","e","r","A","d","I","m","p","r","e","s","s","i","o","n","s">>>>,
         <<<<"S","E","S","S","I","O","N","_","G","O","O","G","L","E","_","A","D","S","_","A","C","C","O","U","N","T","_","N","A","M","E">>,
           <<"S","E","S","S","I","O","N","_","G","O","O","G","L","E","_","A","D","S","_","A","D","_","G","R","O","U","P","_","I","D">>,
           <<"S","E","S","S","I","O","N","_","G","O","O","G","L","E","_","A","D","S","_","A","D","_","G","R","O","U","P","_","N","A","M","E">>,
           <<"S","E","S","S","I","O","N","_","G","O","O","G","L","E","_","A","D","S","_","A","D","_","N","E","T","W","O","R","K","_","T","Y","P","E">>,
           <<"S","E","S","S","I","O","N","_","G","O","O","G","L","E","_","A","D","S","_","C","A","M","P","A","I","G","N","_","I","D">>,
           <<"S","E","S","S","I","O","N","_","G","O","O","G","L","E","_","A","D","S","_","C","A","M","P","A","I","G","N","_","N","A","M","E">>,
           <<"S","E","S","S","I","O","N","_","G","O","O","G","L","E","_","A","D","S","_","C","A","M","P","A","I","G","N","_","T","Y","P","E">>,
           <<"S","E","S","S","I","O","N","_","G","O","O","G","L","E","_","A","D","S","_","C","R","E","A","T","I","V","E","_","I","D">>,
           <<"S","E","S","S","I","O","N","_","G","O","O","G","L","E","_","A","D","S","_","K","E","Y","W","O","R","D">>,
           <<"S","E","S","S","I","O","N","_","G","O","O","G","L","E","_","A","D","S","_","Q","U","E","R","Y">>,
           <<"G","O","O","G","L","E","_","A","D","S","_","A","C","C","O","U","N","T","_","N","A","M","E">>,
           <<"G","O","O","G","L","E","_","A","D","S","_","A","D","_","G","R","O","U","P","_","I","D">>,
           <<"G","O","O","G","L","E","_","A","D","S","_","A","D","_","G","R","O","U","P","_","N","A","M","E">>,
           <<"G","O","O","G","L","E","_","A","D","S","_","C","A","M","P","A","I","G","N","_","I","D">>,
           <<"G","O","O","G","L","E","_","A","D","S","_","C","A","M","P","A","I","G","N","_","N","A","M","E">>,
           <<"S","E","S","S","I","O","N","S">>,
           <<"T","O","T","A","L","_","U","S","E","R","S">>,
           <<"N","E","W","_","U","S","E","R","S">>,
           <<"A","C","T","I","V","E","_","U","S","E","R","S">>,
           <<"E","N","G","A","G","E","D","_","S","E","S","S","I","O","N","S">>,
           <<"E","N","G","A","G","E","M","E","N","T","_","R","A","T","E">>,
           <<"C","O","N","V","E","R","S","I","O","N","S">>,
           <<"T","O","T","A","L","_","R","E","V","E","N","U","E">>,
           <<"A","D","V","E","R","T","I","S","E","R","_","A","D","_","C","L","I","C","K","S">>,
           <<"A","D","V","E","R","T","I","S","E","R","_","A","D","_","C","O","S","T">>,
           <<"A","D","V","E","R","T","I","S","E","R","_","A","D","_","C","O","S","T","_","P","E","R","_","C","L","I","C","K">>,
           <<"A","D","V","E","R","T","I","S","E","R","_","A","D","_","I","M","P","R","E","S","S","I","O","N","S">>>>)

\* ------------------------------------------------------------------ rows
\* A row is a function from field names to values, as a Python dict.
Dict(keys, vals) ==
    [k \in Range(keys) |->
        vals[CHOOSE i \in 1..Len(keys) :
                 keys[i] = k /\ \A j \in (i + 1)..Len(keys) : keys[j] # k]]

\* dict.update
Update(a, b) ==
    [k \in DOMAIN a \cup DOMAIN b |-> IF k \in DOMAIN b THEN b[k] ELSE a[k]]

\* str.replace(old, ""), scanning from position i.
RECURSIVE Remove(_, _, _)
Remove(text, old, i) ==
    IF i > Len(text) THEN <<>>
    ELSE IF i + Len(old) - 1 <= Len(text) /\ SubSeq(text, i, i + Len(old) - 1) = old
    THEN Remove(text, old, i + Len(old))
    ELSE <<text[i]>> \o Remove(text, old, i + 1)

PropertiesPrefix == <<"p", "r", "o", "p", "e", "r", "t", "i", "e", "s", "/">>

Field_id == <<"i", "d">>
Field_ga4_session_key ==
    <<"g", "a", "4", "_", "s", "e", "s", "s", "i", "o", "n", "_", "k", "e", "y">>
Field_property_id == <<"p", "r", "o", "p", "e", "r", "t", "y", "_", "i", "d">>
Field_date == <<"d", "a", "t", "e">>
Field_last_update == <<"l", "a", "s", "t", "_", "u", "p", "d", "a", "t", "e">>
Field_extraction_timestamp ==
    <<"e", "x", "t", "r", "a", "c", "t", "i", "o", "n", "_",
      "t", "i", "m", "e", "s", "t", "a", "m", "p">>

\* datetime.utcnow().isoformat() + "Z", to the second.
isoformat(day) ==
    strftime(day) \o <<"T", "0", "3", ":", "0", "0", ":", "0", "0", "Z">>

\* What the Report Source answers for one row: one value per requested
\* dimension and one per requested metric.
ResponseRow(dimensions, metrics, date, metric) ==
    [dimension_values |->
         [i \in 1..Len(dimensions) |->
             IF dimensions[i] = Field_date THEN date ELSE <<"(", "n", ")">>],
     metric_values |-> [i \in 1..Len(metrics) |-> metric]]

\* ga4_extractor.py generate_session_key
generate_session_key(property_id, date) ==
    LET clean_property_id == Remove(property_id, PropertiesPrefix, 1)
    IN  clean_property_id \o <<"_">> \o date

\* ga4_extractor.py run_report: one row of the response as a dict.
run_report_row(dimensions, metrics, row) ==
    LET valid_dimensions ==
            SelectSeq(dimensions, LAMBDA d : \A i \in 1..Len(d) : d[i] # ":")
        dims == Dict([i \in 1..Len(row.dimension_values) |->
                         camel_to_snake(valid_dimensions[i])],
                     row.dimension_values)
        mets == Dict([i \in 1..Len(row.metric_values) |->
                         camel_to_snake(metrics[i])],
                     [i \in 1..Len(row.metric_values) |->
                         run_report_metric(row.metric_values[i])])
    IN  Update(dims, mets)

\* extract_dimension with the session key built from the query's start date.
processed_row_StartDateKey(property_id, row, start_date, id, execution_time) ==
    LET clean_property_id == Remove(property_id, PropertiesPrefix, 1)
        row_date_ == row_date(row, start_date)
    IN  Update((Field_id :> id)
               @@ (Field_ga4_session_key :>
                      generate_session_key(clean_property_id, start_date))
               @@ (Field_property_id :> clean_property_id)
               @@ (Field_date :> row_date_)
               @@ (Field_last_update :> execution_time), row)

\* ga4_extractor.py extract_dimension: one fetched row with the base fields.
processed_row(property_id, row, start_date, id, execution_time) ==
    LET clean_property_id == Remove(property_id, PropertiesPrefix, 1)
        row_date_ == row_date(row, start_date)
    IN  Update((Field_id :> id)
               @@ (Field_ga4_session_key :>
                      generate_session_key(clean_property_id, row_date_))
               @@ (Field_property_id :> clean_property_id)
               @@ (Field_date :> row_date_)
               @@ (Field_last_update :> execution_time), row)

\* ------------------------------------------------ google-analytics-4: ga4.py
ReportConfig(table_name, dimensions, metrics) ==
    [table_name |-> table_name, dimensions |-> dimensions, metrics |-> metrics]

DIMENSION_REPORTS ==
       "USUARIO" :> ReportConfig(
         <<"T","B","_","0","0","1","_","G","A","4","_","D","I","M","_","U","S","U","A","R","I","O">>,
         <<<<"d","a","t","e">>,
           <<"n","e","w","V","s","R","e","t","u","r","n","i","n","g">>,
           <<"u","s","e","r","A","g","e","B","r","a","c","k","e","t">>,
           <<"u","s","e","r","G","e","n","d","e","r">>>>,
         <<<<"a","c","t","i","v","e","U","s","e","r","s">>,
           <<"n","e","w","U","s","e","r","s">>,
           <<"t","o","t","a","l","U","s","e","r","s">>>>)
    @@ "GEOGRAFICA" :> ReportConfig(
         <<"T","B","_","0","0","2","_","G","A","4","_","D","I","M","_","G","E","O","G","R","A","F","I","C","A">>,
         <<<<"d","a","t","e">>,
           <<"c","i","t","y">>,
           <<"c","i","t","y","I","d">>,
           <<"c","o","u","n","t","r","y">>,
           <<"c","o","u","n","t","r","y","I","d">>,
           <<"r","e","g","i","o","n">>,
           <<"c","o","n","t","i","n","e","n","t">>>>,
         <<<<"a","c","t","i","v","e","U","s","e","r","s">>,
           <<"s","e","s","s","i","o","n","s">>>>)
    @@ "DISPOSITIVO" :> ReportConfig(
         <<"T","B","_","0","0","3","_","G","A","4","_","D","I","M","_","D","I","S","P","O","S","I","T","I","V","O">>,
         <<<<"d","a","t","e">>,
           <<"b","r","o","w","s","e","r">>,
           <<"d","e","v","i","c","e","C","a","t","e","g","o","r","y">>,
           <<"o","p","e","r","a","t","i","n","g","S","y","s","t","e","m">>,
           <<"p","l","a","t","f","o","r","m">>,
           <<"s","c","r","e","e","n","R","e","s","o","l","u","t","i","o","n">>>>,
         <<<<"a","c","t","i","v","e","U","s","e","r","s">>,
           <<"s","e","s","s","i","o","n","s">>>>)
    @@ "AQUISICAO" :> ReportConfig(
         <<"T","B","_","0","0","4","_","G","A","4","_","D","I","M","_","A","Q","U","I","S","I","C","A","O">>,
         <<<<"d","a","t","e">>,
           <<"s","e","s","s","i","o","n","S","o","u","r","c","e">>,
           <<"s","e","s","s","i","o","n","M","e","d","i","u","m">>,
           <<"s","e","s","s","i","o","n","S","o","u","r","c","e","M","e","d","i","u","m">>,
           <<"s","e","s","s","i","o","n","C","a","m","p","a","i","g","n","I","d">>,
           <<"s","e","s","s","i","o","n","C","a","m","p","a","i","g","n","N","a","m","e">>,
           <<"s","e","s","s","i","o","n","D","e","f","a","u","l","t","C","h","a","n","n","e","l","G","r","o","u","p">>>>,
         <<<<"a","c","t","i","v","e","U","s","e","r","s">>,
           <<"s","e","s","s","i","o","n","s">>,
           <<"n","e","w","U","s","e","r","s">>>>)
    @@ "PAGINA" :> ReportConfig(
         <<"T","B","_","0","0","5","_","G","A","4","_","D","I","M","_","P","A","G","I","N","A">>,
         <<<<"d","a","t","e">>,
           <<"p","a","g","e","P","a","t","h">>,
           <<"p","a","g","e","T","i","t","l","e">>,
           <<"l","a","n","d","i","n","g","P","a","g","e">>,
           <<"h","o","s","t","N","a","m","e">>>>,
         <<<<"s","c","r","e","e","n","P","a","g","e","V","i","e","w","s">>,
           <<"a","c","t","i","v","e","U","s","e","r","s">>>>)
    @@ "EVENTO" :> ReportConfig(
         <<"T","B","_","0","0","6","_","G","A","4","_","D","I","M","_","E","V","E","N","T","O">>,
         <<<<"d","a","t","e">>,
           <<"e","v","e","n","t","N","a","m","e">>,
           <<"i","s","C","o","n","v","e","r","s","i","o","n","E","v","e","n","t">>>>,
         <<<<"e","v","e","n","t","C","o","u","n","t">>,
           <<"a","c","t","i","v","e","U","s","e","r","s">>>>)
    @@ "PUBLICO" :> ReportConfig(
         <<"T","B","_","0","0","7","_","G","A","4","_","D","I","M","_","P","U","B","L","I","C","O">>,
         <<<<"d","a","t","e">>,
           <<"a","u","d","i","e","n","c","e","I","d">>,
           <<"a","u","d","i","e","n","c","e","N","a","m","e">>>>,
         <<<<"a","c","t","i","v","e","U","s","e","r","s">>>>)

\* ga4.py run_ga4_report: one row of the response as a dict.
run_ga4_report_row(dimensions, metrics, row) ==
    Update(Dict([i \in 1..Len(row.dimension_values) |-> dimensions[i]],
                row.dimension_values),
           Dict([i \in 1..Len(row.metric_values) |-> metrics[i]],
                [i \in 1..Len(row.metric_values) |->
                    run_report_metric(row.metric_values[i])]))

\* ga4.py extract_dimension_report: one fetched row with its metadata.
extract_dimension_report_row(property_id, row, extraction_time) ==
    Update(row, (Field_property_id :> Remove(property_id, PropertiesPrefix, 1))
                @@ (Field_extraction_timestamp :> extraction_time))

\* Every vendor field name of the catalog.
VendorNames ==
    UNION {Range(DIMENSION_SCHEMAS[k].dimensions) \cup Range(DIMENSION_SCHEMAS[k].metrics) :
              k \in DOMAIN DIMENSION_SCHEMAS}

Input(fn, in) == [fn |-> fn, in |-> in, out |-> <<>>, done |-> FALSE]

Apply(fn, out) ==
    /\ unit.fn = fn /\ ~unit.done
    /\ unit' = [unit EXCEPT !.out = out, !.done = TRUE]
    /\ UNCHANGED <<connector, sink, hist, batch, clock, req, gcp_connection, threads, dag, pager>>

\* Inputs are kept one set per function: their values are of different kinds.
NameInputs == {Input("camel_to_snake", name) : name \in VendorNames}
KeyInputs == {Input("get_schema", key) : key \in DOMAIN DIMENSION_SCHEMAS}
\* The inputs of a row: entity ids with and without the resource prefix, a
\* start date, the day of the source row, a metric text and a fresh uuid.
PropertyIds == {<<"1", "2", "3">>, PropertiesPrefix \o <<"1", "2", "3">>}
StartDates == {strftime(Days[d]) : d \in 1..(Len(Days) - 1)}
SourceDates == {DateDimension(Days[d]) : d \in DOMAIN Days}
RowMetrics == {<<"1", "2">>, <<"1", "2", ".", "5">>, <<"N", "/", "A">>}
Uuids == {<<"u", "1">>, <<"u", "2">>}

SessionKeyInputs ==
    {Input("generate_session_key", <<pid, d>>) :
        pid \in PropertyIds, d \in StartDates \cup SourceDates}
RowInputs ==
    {Input("extract_dimension",
           [dimension_key |-> k, property_id |-> pid, start_date |-> sd,
            date |-> d, metric |-> v, id |-> u]) :
        k \in DOMAIN DIMENSION_SCHEMAS, pid \in PropertyIds, sd \in StartDates,
        d \in SourceDates, v \in RowMetrics, u \in Uuids}
GenericRowInputs ==
    {Input("extract_dimension_report",
           [report_key |-> k, property_id |-> pid, date |-> d, metric |-> v]) :
        k \in DOMAIN DIMENSION_REPORTS, pid \in PropertyIds,
        d \in SourceDates, v \in RowMetrics}
DateInputs == {Input("report_date", d) : d \in SourceDates}
ValueInputs == {Input("run_report", v) : v \in MetricTexts}
                   \cup {Input("_prepare_rows_for_bigquery", v) : v \in MetricTexts \cup {None}}

CamelToSnake ==
    /\ unit.fn = "camel_to_snake"
    /\ Apply("camel_to_snake", camel_to_snake(unit.in))

\* schemas.py get_schema: the TableSchema of a known report key.
get_schema(dimension_key) == DIMENSION_SCHEMAS[dimension_key]

GetSchema ==
    /\ unit.fn = "get_schema"
    /\ Apply("get_schema", get_schema(unit.in))

RunReportMetric ==
    /\ unit.fn = "run_report"
    /\ Apply("run_report", run_report_metric(unit.in))

PrepareRowsMetric ==
    /\ unit.fn = "_prepare_rows_for_bigquery"
    /\ Apply("_prepare_rows_for_bigquery", prepare_rows_metric(unit.in))

GenerateSessionKey ==
    /\ unit.fn = "generate_session_key"
    /\ Apply("generate_session_key",
             generate_session_key(unit.in[1], unit.in[2]))

\* ga4_campaign: run_report and extract_dimension on one row of the response.
ExtractDimensionRow ==
    /\ unit.fn = "extract_dimension"
    /\ LET schema == get_schema(unit.in.dimension_key)
           response == ResponseRow(schema.dimensions, schema.metrics,
                                   unit.in.date, unit.in.metric)
           row == run_report_row(schema.dimensions, schema.metrics, response)
       IN  Apply("extract_dimension",
                 processed_row(unit.in.property_id, row, unit.in.start_date,
                               unit.in.id, isoformat(Days[clock])))

\* ga4_generic: run_ga4_report and extract_dimension_report on one row.
ExtractDimensionReportRow ==
    /\ unit.fn = "extract_dimension_report"
    /\ LET config == DIMENSION_REPORTS[unit.in.report_key]
           response == ResponseRow(config.dimensions, config.metrics,
                                   unit.in.date, unit.in.metric)
           row == run_ga4_report_row(config.dimensions, config.metrics, response)
       IN  Apply("extract_dimension_report",
                 extract_dimension_report_row(unit.in.property_id, row,
                                              isoformat(Days[clock])))

\* ga4_manager: the report_date of a row that has a date dimension.
PrepareRowsReportDate ==
    /\ unit.fn = "report_date"
    /\ Apply("report_date", report_date(unit.in))

\* ------------------------------------------------ ga4_generic: bigquery.py
\* A value of a sample row: its class and its repr.
Sample(type, repr) == [type |-> type, repr |-> repr]
SampleValues ==
    {Sample("str", <<"a">>), Sample("int", <<"7">>),
     Sample("float", <<"1", ".", "5">>), Sample("bool", <<"T", "r", "u", "e">>),
     Sample("NoneType", None)}
SampleKeys == {Field_date, Field_extraction_timestamp, <<"n", "e", "w">>}

\* isinstance(value, cls): bool is a subclass of int.
isinstance(value, cls) ==
    \/ value.type = cls
    \/ value.type = "bool" /\ cls = "int"

BASE_SCHEMA ==
    <<[name |-> Field_date, type |-> "DATE"],
      [name |-> Field_property_id, type |-> "STRING"],
      [name |-> Field_extraction_timestamp, type |-> "TIMESTAMP"]>>

\* get_schema_for_report: data is the list of rows, a row the list of its
\* (key, value) items in insertion order; descriptions are left out.
get_schema_for_report(data) ==
    IF data = <<>> THEN BASE_SCHEMA
    ELSE LET sample_row == data[1]
         IN  [i \in 1..Len(sample_row) |->
                 LET key == sample_row[i][1]
                     value == sample_row[i][2]
                 IN  [name |-> key,
                      type |-> IF key = Field_date THEN "DATE"
                               ELSE IF key = Field_extraction_timestamp THEN "TIMESTAMP"
                               ELSE IF isinstance(value, "int") THEN "INTEGER"
                               ELSE IF isinstance(value, "float") THEN "FLOAT"
                               ELSE IF isinstance(value, "bool") THEN "BOOLEAN"
                               ELSE "STRING"]]

SampleItems == SampleKeys \X SampleValues
SampleRows ==
    {<<a>> : a \in SampleItems}
        \cup {<<p[1], p[2]>> : p \in {q \in SampleItems \X SampleItems : q[1][1] # q[2][1]}}
SchemaInputs ==
    {Input("get_schema_for_report", <<row>>) : row \in SampleRows}
        \cup {Input("get_schema_for_report", <<>>)}

GetSchemaForReport ==
    /\ unit.fn = "get_schema_for_report"
    /\ Apply("get_schema_for_report", get_schema_for_report(unit.in))

InitTransform ==
    /\ pager = NoPager
    /\ dag = NoDag
    /\ gcp_connection = GCPConnection
    /\ threads = [r \in Requests |-> NoThread]
    /\ connector = "ga4_campaign"
    /\ sink = [dataset |-> TRUE, exists |-> {}, rows |-> [t \in Tables |-> {}]]
    /\ hist = <<>>
    /\ batch = NoBatch
    /\ clock = Len(Days) - 1
    /\ req = NoReq
    /\ \/ unit \in NameInputs
       \/ unit \in KeyInputs
       \/ unit \in ValueInputs
       \/ unit \in SessionKeyInputs
       \/ unit \in RowInputs
       \/ unit \in GenericRowInputs
       \/ unit \in DateInputs
       \/ unit \in SchemaInputs

NextTransform ==
    \/ CamelToSnake \/ GetSchema
    \/ RunReportMetric \/ PrepareRowsMetric
    \/ GenerateSessionKey \/ ExtractDimensionRow \/ ExtractDimensionReportRow
    \/ PrepareRowsReportDate \/ GetSchemaForReport

SpecTransform == InitTransform /\ [][NextTransform]_vars

\* C20: normalising an already normalised catalog name changes nothing.
C20_NormalizeIdempotent ==
    (unit.fn = "camel_to_snake" /\ unit.done)
        => camel_to_snake(unit.out) = unit.out

C20_Witness ==
    /\ unit.fn = "camel_to_snake" /\ unit.done
    /\ unit.in = <<"i", "t", "e", "m", "C", "a", "t", "e", "g", "o", "r", "y", "2">>
    /\ unit.out = <<"i", "t", "e", "m", "_", "c", "a", "t", "e", "g", "o", "r", "y", "2">>


\* C15: every declared dimension and metric name of a report is, normalised, a
\* column of the report's table schema (column names compare without case),
\* and so are the identity, foreign, partition and ingestion columns.
C15_DeclaredNamesAreColumns ==
    (unit.fn = "get_schema" /\ unit.done) =>
        LET columns == Range(unit.out.schema_fields)
            base == get_base_fields(unit.out.table_name)
        IN  /\ \A name \in Range(unit.out.dimensions) \cup Range(unit.out.metrics) :
                  upper(camel_to_snake(name)) \in columns
            /\ {base[1], base[2], base[4], base[5]} \subseteq columns


\* C19: coercing a metric value never raises; a text with a '.' that parses
\* becomes a float, a text without one that parses becomes an integer, and any
\* other text is kept as it was ("12" -> 12, "12.5" -> 12.5, "N/A" -> "N/A").
C19_CoercionNeverRaises ==
    (unit.fn \in {"run_report", "_prepare_rows_for_bigquery"} /\ unit.done
        /\ unit.in # None) =>
        LET v == unit.in
            digits == {i \in 1..Len(v) : IsDigit(v[i])}
            points == {i \in 1..Len(v) : v[i] = "."}
            others == (1..Len(v)) \ (digits \cup points \cup (IF Sign(v) = -1 THEN {1} ELSE {}))
            numeric == digits # {} /\ others = {}
        IN  /\ unit.out.type \in {"int", "float", "str"}
            /\ unit.out.type = "float" <=> (numeric /\ Cardinality(points) = 1)
            /\ unit.out.type = "int" <=> (numeric /\ points = {})
            /\ unit.out.type = "str" => unit.out.value = v
            /\ v = <<"1", "2">> => unit.out.value = 12
            /\ v = <<"1", "2", ".", "5">> =>
                  (unit.out.num = 125 /\ unit.out.scale = 1 /\ unit.out.sign = 1)
            /\ v = <<"N", "/", "A">> => unit.out.type = "str"

C19_Witness ==
    /\ unit.fn = "run_report" /\ unit.done
    /\ unit.in = <<"1", ".", "2", ".", "5">>
    /\ unit.out = Raw(unit.in)


\* ----------------------------------------------------------- row properties
RowDone == unit.fn \in {"extract_dimension", "extract_dimension_report"} /\ unit.done

\* The names declared for the report of the row in unit.
Declared ==
    LET spec == IF unit.fn = "extract_dimension"
                THEN DIMENSION_SCHEMAS[unit.in.dimension_key]
                ELSE DIMENSION_REPORTS[unit.in.report_key]
    IN  Range(spec.dimensions) \cup Range(spec.metrics)

Timestamps == {Field_last_update, Field_extraction_timestamp}

\* YYYY-MM-DD
IsIsoDate(t) ==
    /\ Len(t) = 10
    /\ t[5] = "-" /\ t[8] = "-"
    /\ \A i \in {1, 2, 3, 4, 6, 7, 9, 10} : IsDigit(t[i])

\* C16: an extracted row has the identity key, the partition key, the foreign
\* key and an ingestion timestamp, and besides them and the entity id exactly
\* the declared dimension and metric columns, none of them absent.
C16_RowKeys ==
    RowDone =>
        LET keys == DOMAIN unit.out
        IN  /\ {Field_id, Field_date, Field_ga4_session_key} \subseteq keys
            /\ keys \cap Timestamps # {}
            /\ keys \ ({Field_id, Field_date, Field_ga4_session_key,
                        Field_property_id} \cup Timestamps)
                   = {camel_to_snake(name) : name \in Declared} \ {Field_date}

\* C17: the foreign key of an enriched row is the row's entity id, "_", and
\* the row's own partition date; "123" and 2024-01-15 give "123_2024-01-15".
C17_SessionKey ==
    /\ (unit.fn = "extract_dimension" /\ unit.done) =>
          /\ unit.out[Field_ga4_session_key] =
                 unit.out[Field_property_id] \o <<"_">> \o unit.out[Field_date]
          /\ unit.out[Field_property_id] = <<"1", "2", "3">>
    /\ (unit.fn = "generate_session_key" /\ unit.done
           /\ unit.in[2] = <<"2", "0", "2", "4", "-", "0", "1", "-", "1", "5">>) =>
          unit.out = <<"1", "2", "3", "_",
                       "2", "0", "2", "4", "-", "0", "1", "-", "1", "5">>

C17_Witness ==
    /\ unit.fn = "extract_dimension" /\ unit.done
    /\ unit.in.property_id = PropertiesPrefix \o <<"1", "2", "3">>
    /\ unit.in.date = DateDimension(Days[2])
    /\ unit.out[Field_ga4_session_key] =
           <<"1", "2", "3", "_">> \o DateDimension(Days[2])

\* C18: the partition key of an enriched row is written YYYY-MM-DD and is the
\* day of the source row's date dimension.
C18_PartitionKeyIsoDate ==
    /\ (unit.fn = "extract_dimension" /\ unit.done) =>
          /\ IsIsoDate(unit.out[Field_date])
          /\ \E d \in DOMAIN Days :
                /\ unit.in.date = DateDimension(Days[d])
                /\ unit.out[Field_date] = strftime(Days[d])
    /\ (unit.fn = "report_date" /\ unit.done) =>
          /\ IsIsoDate(unit.out)
          /\ \E d \in DOMAIN Days :
                unit.in = DateDimension(Days[d]) /\ unit.out = strftime(Days[d])

\* ------------------------------------------ ga4_campaign: the Table Manager
\* One call of a BigQueryClient method from outside a request: unit keeps the
\* table asked for, the sink before the call, the other arguments, the value
\* returned and the calls.
Managed(fn, t, arg, r) ==
    /\ Canon(r.env, r.c.calls)
    /\ sink' = r.c.sink
    /\ unit' = [fn |-> fn, in |-> [table |-> t, sink |-> sink, arg |-> arg],
                out |-> [ret |-> r.ok, calls |-> r.c.calls], done |-> TRUE]
    /\ UNCHANGED <<connector, hist, batch, clock, req, gcp_connection, threads, dag, pager>>

CreateDataset ==
    /\ connector = "ga4_campaign"
    /\ \E env \in BatchEnvs :
          Managed("create_dataset", NoTable, NoArg,
                  BigQueryClient_create_dataset(Ctx(sink), env) @@ [env |-> env])

EnsureTableExists ==
    /\ connector = "ga4_campaign"
    /\ \E key \in Catalog, env \in BatchEnvs :
          Managed("ensure_table_exists", TableOf(key), NoArg,
                  BigQueryClient_ensure_table_exists(Ctx(sink), TableOf(key), env)
                      @@ [env |-> env])

CreateAllTables ==
    /\ connector = "ga4_campaign"
    /\ \E env \in BatchEnvs :
          Managed("create_all_tables", NoTable, NoArg,
                  [c |-> BigQueryClient_create_all_tables(Ctx(sink), env),
                   ok |-> TRUE, env |-> env])

\* load_report on rows the caller hands over, with or without replacement.
LoadReport ==
    /\ connector = "ga4_campaign"
    /\ \E key \in Catalog, replace_partition \in BOOLEAN,
          dates \in BatchResponses, env \in BatchEnvs :
          LET l == BigQueryClient_load_report(Ctx(sink), TableOf(key),
                       Enrich(1, dates), replace_partition, env)
          IN  Managed("load_report", TableOf(key),
                      [dates |-> dates, replace_partition |-> replace_partition],
                      [c |-> l.c, ok |-> l.ret.status = "success", env |-> env])

NextTables == CreateDataset \/ EnsureTableExists \/ CreateAllTables \/ LoadReport

SpecTables == Init /\ [][NextTables]_vars

\* C21: ensure_table_exists returns true whenever the table exists after the
\* call, and false only when the table was absent before the call and the
\* create_table that followed failed.
C21_EnsureReportsExistence ==
    unit.fn = "ensure_table_exists" =>
        /\ unit.in.table \in sink.exists => unit.out.ret
        /\ ~unit.out.ret =>
              /\ unit.in.table \notin unit.in.sink.exists
              /\ LastOf(unit.out.calls).op = "create_table"
              /\ ~LastOf(unit.out.calls).ok

\* C22: ensure_table_exists first checks the dataset and, when the dataset is
\* absent, creates it, before the table is checked or created.
C22_EnsureChecksDatasetFirst ==
    unit.fn = "ensure_table_exists" =>
        /\ unit.out.calls[1].op = "get_dataset"
        /\ ~unit.in.sink.dataset =>
              /\ Len(unit.out.calls) >= 2
              /\ unit.out.calls[2].op = "create_dataset"

\* C23: a load_report with partition replacement issues, before its insert, a
\* partition delete for every distinct date among the rows it inserts.
C23_EveryPartitionDeleted ==
    (unit.fn = "load_report" /\ unit.in.arg.replace_partition) =>
        \A i \in 1..Len(unit.out.calls) :
            unit.out.calls[i].op = "insert" =>
                \A d \in Range(unit.in.arg.dates) :
                    \E j \in 1..(i - 1) :
                        /\ unit.out.calls[j].op = "delete"
                        /\ unit.out.calls[j].table = unit.in.table
                        /\ unit.out.calls[j].arg = d

\* C24: within a single-report request, every partition delete and every
\* insert goes to a table that the request's schema-ensure step has checked or
\* created before, also when the caller gave a table prefix.
C24_LoadsEnsuredTable ==
    \A n \in 1..Len(hist) :
        LET calls == hist[n].calls
        IN  \A i \in 1..Len(calls) :
                calls[i].op \in {"delete", "insert"} =>
                    \E j \in 1..(i - 1) :
                        /\ calls[j].op \in {"get_table", "create_table"}
                        /\ calls[j].table = calls[i].table

\* C25: a single-report response whose top-level status is "success" has a
\* load result that did not end in error.
C25_SuccessMeansLoaded ==
    \A n \in 1..Len(hist) :
        hist[n].resp.status = "success" => hist[n].resp.load.status # "error"

\* ------------------------------ ga4_campaign: concurrent requests, one process
\* The steps of get_gcp_clients as the interpreter interleaves them between
\* threads: every read and every write of a gcp_connection attribute is one step.
Goto(r, pc) ==
    /\ threads' = [threads EXCEPT ![r].pc = pc]
    /\ UNCHANGED <<connector, sink, hist, batch, clock, req, unit, dag, pager>>

\* A request reaches its handler, which calls get_gcp_clients().
Arrive(r) ==
    /\ connector = "ga4_campaign" /\ threads[r].pc = "idle"
    /\ Goto(r, "is_connected")
    /\ UNCHANGED gcp_connection

\* if not gcp_connection.is_connected
IsConnected(r) ==
    /\ threads[r].pc = "is_connected"
    /\ Goto(r, IF gcp_connection.connected THEN "bigquery" ELSE "connect")
    /\ UNCHANGED gcp_connection

\* connect_gcp(): credentials found and stored, or ValueError (the request
\* answers 500).
Connect(r) ==
    /\ threads[r].pc = "connect"
    /\ \E ok \in BOOLEAN :
          /\ gcp_connection' = [gcp_connection EXCEPT !.connected = @ \/ ok]
          /\ Goto(r, IF ok THEN "bigquery" ELSE "done")

\* The attribute of gcp_connection that caches a client.
Attr(client) == client \o "_client"

\* get_bigquery_client / get_ga4_client: if self._<client> is None
IsNone(r, client) ==
    /\ threads[r].pc = client
    /\ Goto(r, IF gcp_connection[Attr(client)] = NoClient
               THEN "new_" \o client ELSE "return_" \o client)
    /\ UNCHANGED gcp_connection

\* self._<client> = <Client>(credentials=self._credentials)
NewClient(r, client) ==
    /\ threads[r].pc = "new_" \o client
    /\ gcp_connection' = [gcp_connection EXCEPT ![Attr(client)] = r]
    /\ Goto(r, "return_" \o client)

\* return self._<client>; get_all_clients asks for bigquery, then for ga4.
ReturnClient(r, client) ==
    /\ threads[r].pc = "return_" \o client
    /\ threads' = [threads EXCEPT
                      ![r][client] = gcp_connection[Attr(client)],
                      ![r].pc = IF client = "bigquery" THEN "ga4" ELSE "run"]
    /\ UNCHANGED <<connector, sink, hist, batch, clock, req, unit, gcp_connection, dag, pager>>

\* The handler runs its pipeline on the clients it was handed; processed_data
\* is a list local to the call.
RunPipeline(r) ==
    /\ threads[r].pc = "run"
    /\ threads' = [threads EXCEPT ![r].data = <<r>>, ![r].pc = "done"]
    /\ UNCHANGED <<connector, sink, hist, batch, clock, req, unit, gcp_connection, dag, pager>>

\* The response is sent; the thread is free for the next request.
Respond(r) ==
    /\ threads[r].pc = "done"
    /\ threads' = [threads EXCEPT ![r] = NoThread]
    /\ UNCHANGED <<connector, sink, hist, batch, clock, req, unit, gcp_connection, dag, pager>>

GetBigqueryClient(r) ==
    IsNone(r, "bigquery") \/ NewClient(r, "bigquery") \/ ReturnClient(r, "bigquery")

GetGa4Client(r) ==
    IsNone(r, "ga4") \/ NewClient(r, "ga4") \/ ReturnClient(r, "ga4")

NextThreads ==
    \E r \in Requests :
        \/ Arrive(r) \/ IsConnected(r) \/ Connect(r)
        \/ GetBigqueryClient(r) \/ GetGa4Client(r)
        \/ RunPipeline(r) \/ Respond(r)

SpecThreads == Init /\ [][NextThreads]_vars

\* C26: two requests that run their pipelines at the same time hold different
\* BigQuery client objects and different GA4 client objects.
C26_OwnHandles ==
    \A r1, r2 \in Requests :
        (r1 # r2 /\ threads[r1].pc = "run" /\ threads[r2].pc = "run") =>
            /\ threads[r1].bigquery # threads[r2].bigquery
            /\ threads[r1].ga4 # threads[r2].ga4

\* The pipeline step a client call belongs to.
StepOf(op) ==
    CASE op = "run_report" -> "fetch"
      [] op \in {"get_dataset", "create_dataset", "get_table", "create_table"} -> "ensure"
      [] op = "delete" -> "delete"
      [] op = "insert" -> "insert"

\* The calls of every handled request follow the given order of steps.
InOrder(steps) ==
    \A n \in 1..Len(hist) :
        \A i, j \in 1..Len(hist[n].calls) :
            i < j => \E a, b \in 1..Len(steps) :
                        /\ a <= b
                        /\ steps[a] = StepOf(hist[n].calls[i].op)
                        /\ steps[b] = StepOf(hist[n].calls[j].op)

C28_InferredTypes ==
    (unit.fn = "get_schema_for_report" /\ unit.done /\ unit.in # <<>>) =>
        \A i \in 1..Len(unit.in[1]) :
            LET key == unit.in[1][i][1]
                value == unit.in[1][i][2]
            IN  /\ unit.out[i].name = key
                /\ unit.out[i].type =
                      IF key = Field_date THEN "DATE"
                      ELSE IF key = Field_extraction_timestamp THEN "TIMESTAMP"
                      ELSE CASE value.type = "float" -> "FLOAT"
                             [] value.type = "int" -> "INTEGER"
                             [] value.type = "bool" -> "BOOLEAN"
                             [] OTHER -> "STRING"

\* ------------------------------------- ga4_generic: dags/dag_ga4_daily_load.py
\* The scheduler's handling of a task instance whose callable has returned or
\* raised: success; up_for_retry while tries are left (the next try starts
\* retry_delay later); failed after the last one.
Returned(task) == [task EXCEPT !.state = "success"]

Raised(task) ==
    IF task.try_number <= Retries
    THEN [task EXCEPT !.state = "up_for_retry", !.try_number = @ + 1]
    ELSE [task EXCEPT !.state = "failed"]

Runnable(task) == task.state \in {"scheduled", "up_for_retry"}

RunTask(t, task) ==
    /\ dag' = [dag EXCEPT ![t] = task]
    /\ UNCHANGED <<connector, sink, hist, batch, clock, req, unit,
                   gcp_connection, threads, pager>>

\* validate_config: raises when no property is configured or the API does not
\* answer.
ValidateConfig ==
    /\ connector = "ga4_manager" /\ Runnable(dag["validate_config"])
    /\ \E ok \in BOOLEAN :
          RunTask("validate_config",
                  IF ok THEN Returned(dag["validate_config"])
                        ELSE Raised(dag["validate_config"]))

\* call_api: requests.post with a timeout, then raise_for_status.
call_api(outcome) == [raised |-> outcome # "ok", outcome |-> outcome]

\* process_property: one POST /report/all; any exception is caught and
\* returned as a result with status 'error'.
process_property(task, outcome) ==
    LET r == call_api(outcome)
    IN  Returned([task EXCEPT !.api = r.outcome, !.calls = @ + 1,
                     !.status = IF r.raised THEN "error" ELSE "success"])

ProcessProperty ==
    /\ dag["validate_config"].state = "success"
    /\ \E p \in Properties, outcome \in {"ok", "http_error", "timeout"} :
          /\ Runnable(dag[p])
          /\ RunTask(p, process_property(dag[p], outcome))

\* The default trigger rule: a task whose upstream task failed is not run.
UpstreamFailed ==
    /\ dag["validate_config"].state = "failed"
    /\ \E p \in Properties :
          /\ dag[p].state = "scheduled"
          /\ RunTask(p, [dag[p] EXCEPT !.state = "upstream_failed"])

\* consolidate_results (trigger rule ALL_DONE) over the results returned.
ConsolidateResults ==
    /\ Runnable(dag["consolidate_results"])
    /\ \A p \in Properties : dag[p].state \in {"success", "failed"}
    /\ RunTask("consolidate_results",
               Returned([dag["consolidate_results"] EXCEPT
                   !.status = IF \A p \in Properties : dag[p].status = "success"
                              THEN "success" ELSE "error"]))

NextDag == ValidateConfig \/ ProcessProperty \/ UpstreamFailed \/ ConsolidateResults

SpecDag == Init /\ [][NextDag]_vars

\* C29: a property's task whose API call failed is left failed or waiting for
\* a retry of the scheduler, and a task sends one request per try.
C29_FailedCallFailsTask ==
    \A p \in Properties :
        /\ dag[p].api \in {"http_error", "timeout"}
              => dag[p].state \in {"up_for_retry", "failed"}
        /\ dag[p].calls <= dag[p].try_number

\* ------------------------------------------ twitter: src/twitter_client.py
Saturate(n, cap) == IF n < cap THEN n + 1 ELSE cap

\* get_all_user_tweets is called: its locals are initialised.
GetAllUserTweets ==
    /\ connector = "twitter" /\ pager.pc # "loop"
    /\ pager' = [NoPager EXCEPT !.pc = "loop"]
    /\ UNCHANGED <<connector, sink, hist, batch, clock, req, unit,
                   gcp_connection, threads, dag>>

\* One iteration of `while True`: a page is requested with the current token;
\* the request may raise; the answer has "data" or not, and a next_token or not.
GetUserTweets ==
    /\ pager.pc = "loop"
    /\ \E raised \in BOOLEAN, has_data \in BOOLEAN, next_token \in Pages :
          LET page == pager.pagination_token
              p1 == [pager EXCEPT !.page_count = Saturate(@, Cardinality(Pages) + 1)]
              p2 == [p1 EXCEPT !.all_tweets[page] = Saturate(@, Many),
                               !.pagination_token = next_token]
          IN  /\ raised => (~has_data /\ next_token = NoToken)
              /\ pager' = IF raised THEN [p1 EXCEPT !.pc = "raised"]
                          ELSE IF ~has_data THEN [p1 EXCEPT !.pc = "returned"]
                          ELSE IF next_token = NoToken THEN [p2 EXCEPT !.pc = "returned"]
                          ELSE p2
    /\ UNCHANGED <<connector, sink, hist, batch, clock, req, unit,
                   gcp_connection, threads, dag>>

NextPager == GetAllUserTweets \/ GetUserTweets

\* The interpreter keeps running the loop of a call that has begun.
SpecPager == Init /\ [][NextPager]_vars /\ WF_vars(GetUserTweets)

\* C30: a call of get_all_user_tweets that has begun ends, after no more page
\* requests than there are pages, holding the tweets of each page at most once.
C30_FetchTerminates ==
    /\ (pager.pc = "loop") ~> (pager.pc \in {"returned", "raised"})
    /\ [](pager.page_count <= Cardinality(Pages))
    /\ [](\A k \in Pages : pager.all_tweets[k] <= 1)

====
